---------------------------- MODULE Spec2Model ----------------------------
(***************************************************************************)
(* G-DSP Engine golden model: the fixed-point codec (fixed_point.py), the  *)
(* Gray-coded 16-QAM mapper (golden_model.py, debug_rx_chain.py), the      *)
(* decision-directed Costas loop (debug_rx_chain.py), the RRC filter       *)
(* design, the vector exporters (fixed_point.py), the golden-model         *)
(* pipeline (golden_model.main), the transmit chain and the sampler.       *)
(*                                                                         *)
(* Numbers.  A float64 input of the codec is a record [k, g, e].  For      *)
(* k = "fin" it stands for the real number                                 *)
(*        g / GridDen  +  e * (1e-12 / TolFine)                            *)
(* a point of a binary grid plus a displacement far smaller than a grid    *)
(* step, so that order and rounding are decided by g first and by e on a   *)
(* tie.  Multiplying by scale = 2^frac_bits is exact in float64, and so is *)
(* every operation below on these values.  The other kinds are the float64 *)
(* values that are no such number: "nan", "pinf", "ninf", and "phuge" /    *)
(* "nhuge", a finite value whose scaled magnitude is 2^63 or more.         *)
(***************************************************************************)
EXTENDS Integers, Sequences, FiniteSets

\* ------------------------------------------------------------------ bounds
MaxIntBits == 2
MaxFracBits == 1

\* The tolerance 1e-12 of the half-way test, in displacement units.
TolFine == 4

\* Grid steps per unit: half an LSB of the finest format.
GridDen == 2 ^ (MaxFracBits + 1)
\* Inputs reach one unit beyond the widest format's range.
XMax == 2 ^ (MaxIntBits - 1) + 1

VARIABLES
    status,     \* "idle" | "returned" | "raised": how the last call ended
    op,         \* the function called last
    x,          \* float_to_fixed: the input array
    fmt,        \* the QFormat of the call
    rounding,   \* the rounding mode of the call
    q,          \* float_to_fixed: the q array before the clip
    clipped,    \* float_to_fixed: the returned array
    n_sat,      \* float_to_fixed: the saturation count reported
    y,          \* fixed_to_float: the returned array
    val, bits,  \* to_twos_complement: the arguments
    tc,         \* to_twos_complement: the result
    m_pc,       \* mapper: "idle" | "assert" | "loop" | "returned" | "raised"
    m_op,       \* mapper: the function called
    m_bits,     \* bits_to_symbols: the bit array
    m_syms,     \* qam16_map: the array of 4-bit symbols
    m_k,        \* bits_to_symbols: the loop index k
    m_I, m_Q,   \* the symbols mapped so far, in units of 1/sqrt(10)
    c_pc,       \* costas_loop_float: "idle" | "loop" | "done"
    c_n,        \* n = len(sym_I)
    c_i,        \* the loop index i: symbols processed so far
    Kp, Ki,     \* the gains, in quarter turns per unit of phase error
    phase,      \* in quarter turns (pi/2)
    omega,      \* in quarter turns
    in_I, in_Q, \* sym_I[i-1], sym_Q[i-1]: the symbol processed last
    demod_I, demod_Q,   \* the last entries written to the output arrays
    error_trace,        \* the last entry written, in units of 1/10
    phase_trace,        \* the last entry written, in degrees
    omega_trace,        \* the last entry written
    r_pc,       \* design_rrc: "idle" | "entry" | "loop" | "returned" | "raised"
    r_mod,      \* the module whose design_rrc is called
    r_N,        \* num_taps
    r_sps,      \* sps
    r_alpha,    \* alpha, in quarters (alpha = r_alpha / 4)
    r_i,        \* the loop index i: taps computed so far
    r_h,        \* the array h
    r_norm,     \* whether h has been divided by its norm
    e_pc,       \* exporter: "idle" | "open" | "header" | "body" | "returned"
    e_kind,     \* "hex" | "mem" | "v": export_hex, export_mem,
                \* export_verilog_include
    e_data,     \* data
    e_fmt,      \* fmt
    e_comment,  \* comment
    e_name,     \* array_name (export_verilog_include), as characters
    e_i,        \* elements of data written so far
    e_prior,    \* what the file at filepath held when the call was made
    e_file,     \* the lines of the file at filepath
    e_prev,     \* the arguments and the result of the export before this one
    g_pc,       \* golden_model.main: the step to run next, "done" or "aborted"
    g_nsym,     \* args.nsym
    g_sps,      \* args.sps
    g_ntaps,    \* args.ntaps
    g_alpha,    \* args.alpha, in quarters
    g_cause,    \* the exception that ended the run, or "none"
    g_files,    \* the vector files this run wrote and closed
    g_partial,  \* the vector files this run opened and left incomplete
    t_pc,       \* transmit chain: "idle" | "upsample" | "convolve" |
                \* "returned" | "raised"
    t_op,       \* the function called
    t_I, t_Q,   \* the input arrays
    t_h,        \* the filter
    t_sps,      \* samples per symbol
    t_upI, t_upQ,   \* I_up, Q_up
    t_outI, t_outQ, \* the arrays returned
    s_pc,       \* slice_qam: "idle" | "called" | "returned"
    s_xI, s_xQ, \* the arguments of the two calls of a symbol, in units of
                \* 1/(2 sqrt(10))
    s_hatI, s_hatQ,     \* I_hat, Q_hat
    runs,       \* the costas_loop_float calls in progress together: the
                \* local variables of each
    v_pc,       \* CSV loader: "idle" | "loop" | "returned" | "raised"
    v_loader,   \* "load_rx_constellation" | "analyze_rx"
    v_header,   \* whether the first line of the file is the expected header
    v_lines,    \* the data lines of the file, as characters
    v_k,        \* data lines read so far
    I_all, Q_all,           \* load_rx_constellation: the lists
    I_locked, Q_locked,
    v_data,     \* analyze_rx: the list data of rows
    v_exc,      \* the exception that ended the read, or "none"
    b_pc,       \* coefficient read-back: "idle" | "written" | "read" |
                \* "array" | "done" | "raised"
    b_v,        \* the code exported
    b_file,     \* the data line of rrc_coeffs.mem
    b_int,      \* verify_rc: the Python integer read from the line
    coeffs_q    \* verify_rc: the int16 array element

codecVars == <<status, op, x, fmt, rounding, q, clipped, n_sat, y,
               val, bits, tc>>

qamVars == <<m_pc, m_op, m_bits, m_syms, m_k, m_I, m_Q>>

costasVars == <<c_pc, c_n, c_i, Kp, Ki, phase, omega, in_I, in_Q,
                demod_I, demod_Q, error_trace, phase_trace, omega_trace>>

rrcVars == <<r_pc, r_mod, r_N, r_sps, r_alpha, r_i, r_h, r_norm>>

\* The state of the components other than codec, mapper and Costas loop.
expVars == <<e_pc, e_kind, e_data, e_fmt, e_comment, e_name, e_i, e_prior,
             e_file, e_prev>>

mainVars == <<g_pc, g_nsym, g_sps, g_ntaps, g_alpha, g_cause, g_files,
              g_partial>>

txVars == <<t_pc, t_op, t_I, t_Q, t_h, t_sps, t_upI, t_upQ, t_outI, t_outQ>>

slicerVars == <<s_pc, s_xI, s_xQ, s_hatI, s_hatQ>>

pairVars == <<runs>>

csvVars == <<v_pc, v_loader, v_header, v_lines, v_k, I_all, Q_all, I_locked,
             Q_locked, v_data, v_exc>>

readVars == <<b_pc, b_v, b_file, b_int, coeffs_q>>

\* The state of the analysis tooling and of the runs side by side.
toolVars == <<slicerVars, pairVars, csvVars, readVars>>

otherVars == <<rrcVars, expVars, mainVars, txVars, toolVars>>

vars == <<codecVars, qamVars, costasVars, otherVars>>

\* The costas_loop_float calls that may be in progress together.
RunIds == {1, 2}

\* A call slot before any call.
NoRun == [pc |-> "idle", sym_I |-> <<>>, sym_Q |-> <<>>,
          initial_phase_deg |-> 0, Kp |-> 0, Ki |-> 0, phase |-> 0,
          omega |-> 0, demod_I |-> <<>>, demod_Q |-> <<>>,
          phase_trace |-> <<>>, omega_trace |-> <<>>, error_trace |-> <<>>]

\* ------------------------------------------------------------ QFormat
QFormat(ib, fb) == [int_bits |-> ib, frac_bits |-> fb]

Formats == {QFormat(ib, fb) : ib \in 1..MaxIntBits, fb \in 0..MaxFracBits}

total_bits(f) == f.int_bits + f.frac_bits

scale(f) == 2 ^ f.frac_bits

Fin(g, e) == [k |-> "fin", g |-> g, e |-> e]

Special(kind) == [k |-> kind, g |-> 0, e |-> 0]

min_val(f) == Fin(-(2 ^ (f.int_bits - 1)) * GridDen, 0)

max_val(f) == Fin((2 ^ (f.int_bits - 1)) * GridDen - GridDen \div scale(f), 0)

resolution(f) == Fin(GridDen \div scale(f), 0)

\* ------------------------------------------------------- float_to_fixed
\* x * 2^int_bits
Scaled_int_bits(v, f) == Fin(v.g * 2 ^ f.int_bits, v.e * 2 ^ f.int_bits)

\* scaled = x * fmt.scale
Scaled(v, f) == Fin(v.g * scale(f), v.e * scale(f))

\* int()-style truncation towards zero
np_trunc(s) ==
    IF s.g >= 0 THEN s.g \div GridDen
    ELSE IF s.g % GridDen = 0 /\ s.e <= 0 THEN s.g \div GridDen
    ELSE s.g \div GridDen + 1

np_floor(s) ==
    IF s.g % GridDen = 0 /\ s.e < 0 THEN s.g \div GridDen - 1
    ELSE s.g \div GridDen

np_ceil(s) ==
    IF s.g % GridDen = 0 /\ s.e <= 0 THEN s.g \div GridDen
    ELSE s.g \div GridDen + 1

\* Nearest integer, an exact half upwards
np_round_half_up(s) ==
    IF 2 * (s.g % GridDen) < GridDen \/ (2 * (s.g % GridDen) = GridDen /\ s.e < 0)
    THEN s.g \div GridDen
    ELSE s.g \div GridDen + 1

\* numpy rounds to the nearest integer and an exact half to the even one.
np_round(s) ==
    LET fl == s.g \div GridDen
        r2 == 2 * (s.g % GridDen)
    IN  IF r2 < GridDen \/ (r2 = GridDen /\ s.e < 0) THEN fl
        ELSE IF r2 > GridDen \/ s.e > 0 THEN fl + 1
        ELSE IF fl % 2 = 0 THEN fl ELSE fl + 1

\* np.abs(scaled - np.floor(scaled) - 0.5) < 1e-12
NearHalf(s) ==
    /\ 2 * (s.g % GridDen) = GridDen
    /\ s.e < TolFine
    /\ -s.e < TolFine

convergent(s) ==
    IF NearHalf(s)
    THEN (IF np_floor(s) % 2 = 0 THEN np_floor(s) ELSE np_ceil(s))
    ELSE np_round(s)

Modes == {"floor", "round", "convergent"}

Rounded(s, mode) ==
    CASE mode = "floor" -> np_floor(s)
      [] mode = "round" -> np_round(s)
      [] mode = "convergent" -> convergent(s)

\* The value handed to astype: an integer-valued float, or no number at all.
RoundedFloat(v, f, mode) ==
    IF v.k = "fin" THEN [k |-> "int", v |-> Rounded(Scaled(v, f), mode)]
    ELSE [k |-> v.k, v |-> 0]

\* q.astype(np.int64).  Out of the int64 range (and for nan and the
\* infinities) the C cast is undefined: the x86 conversion yields INT64_MIN
\* for every such value ("indefinite"), the ARM one saturates and turns nan
\* into 0 ("saturate").
CastKinds == {"indefinite", "saturate"}

astype_int64(r, ub) ==
    CASE r.k = "int" -> r
      [] r.k \in {"ninf", "nhuge"} -> [k |-> "i64min", v |-> 0]
      [] r.k \in {"pinf", "phuge"} ->
            IF ub = "indefinite" THEN [k |-> "i64min", v |-> 0]
            ELSE [k |-> "i64max", v |-> 0]
      [] r.k = "nan" ->
            IF ub = "indefinite" THEN [k |-> "i64min", v |-> 0]
            ELSE [k |-> "int", v |-> 0]

min_int(f) == -(2 ^ (total_bits(f) - 1))

max_int(f) == 2 ^ (total_bits(f) - 1) - 1

np_clip_low_only(c, lo, hi) ==
    CASE c.k = "i64min" -> lo
      [] c.k = "i64max" -> hi
      [] c.k = "int" -> IF c.v < lo THEN lo ELSE c.v

\* np.clip(q, min_int, max_int) on one element
np_clip(c, lo, hi) ==
    CASE c.k = "i64min" -> lo
      [] c.k = "i64max" -> hi
      [] c.k = "int" -> IF c.v < lo THEN lo ELSE IF c.v > hi THEN hi ELSE c.v

\* q != clipped on one element
Saturated(c, lo, hi) == c.k # "int" \/ c.v # np_clip(c, lo, hi)

RECURSIVE CountSat(_, _, _)
CountSat(qs, lo, hi) ==
    IF qs = <<>> THEN 0
    ELSE (IF Saturated(Head(qs), lo, hi) THEN 1 ELSE 0)
         + CountSat(Tail(qs), lo, hi)

\* ---------------------------------------------------------------- inputs
Fines == {-TolFine, -1, 0, 1, TolFine}

Floats ==
    {Fin(g, e) : g \in (-XMax * GridDen)..(XMax * GridDen), e \in Fines}
    \cup {Special(kind) : kind \in {"nan", "pinf", "ninf", "phuge", "nhuge"}}

\* The arrays tried: every single value, and every pair of values without
\* displacement (the operations are elementwise; pairs are there for the
\* length and the saturation count).
GridFloats == {v \in Floats : v.e = 0}

Arrays ==
    {<<>>} \cup {<<a>> : a \in Floats}
    \cup {<<a, b>> : a \in GridFloats, b \in GridFloats}

RoundingArgs == Modes \cup {"nearest"}

\* ---------------------------------------------------------------- actions
\* An unrecognised mode taken as 'round'
float_to_fixed_lenient(xs, f, mode, ub) ==
    LET m == IF mode \in Modes THEN mode ELSE "round"
        qs == [i \in 1..Len(xs) |->
                 astype_int64(RoundedFloat(xs[i], f, m), ub)]
    IN  /\ op' = "float_to_fixed"
        /\ x' = xs
        /\ fmt' = f
        /\ rounding' = mode
        /\ q' = qs
        /\ clipped' = [i \in 1..Len(xs) |->
                         np_clip(qs[i], min_int(f), max_int(f))]
        /\ n_sat' = CountSat(qs, min_int(f), max_int(f))
        /\ status' = "returned"
        /\ UNCHANGED <<y, val, bits, tc, qamVars, costasVars, otherVars>>

float_to_fixed(xs, f, mode, ub) ==
    /\ op' = "float_to_fixed"
    /\ x' = xs
    /\ fmt' = f
    /\ rounding' = mode
    /\ IF mode \in Modes
       THEN LET qs == [i \in 1..Len(xs) |->
                        astype_int64(RoundedFloat(xs[i], f, mode), ub)]
            IN  /\ q' = qs
                /\ clipped' = [i \in 1..Len(xs) |->
                                 np_clip(qs[i], min_int(f), max_int(f))]
                /\ n_sat' = CountSat(qs, min_int(f), max_int(f))
                /\ status' = "returned"
       ELSE /\ status' = "raised"
            /\ UNCHANGED <<q, clipped, n_sat>>
    /\ UNCHANGED <<y, val, bits, tc, qamVars, costasVars, otherVars>>

\* fixed_to_float of the array float_to_fixed returned, in the same format:
\* q / fmt.scale, exact.
DivScale(v, f) == Fin(v * (GridDen \div scale(f)), 0)

fixed_to_float ==
    /\ status = "returned"
    /\ op = "float_to_fixed"
    /\ op' = "fixed_to_float"
    /\ y' = [i \in 1..Len(clipped) |-> DivScale(clipped[i], fmt)]
    /\ UNCHANGED <<status, x, fmt, rounding, q, clipped, n_sat,
                   val, bits, tc, qamVars, costasVars, otherVars>>

\* ---------------------------------------------------- to_twos_complement
MaxTcBits == 4

to_twos_complement_wrong_width(v, b) == IF v < 0 THEN v + 2 ^ (b - 1) ELSE v

to_twos_complement(v, b) == IF v < 0 THEN v + 2 ^ b ELSE v

\* Reading an unsigned b-bit pattern as signed: verify_rc.py does it for
\* b = 12 (subtract 4096 above 2047).
AsSigned(u, b) == IF u > 2 ^ (b - 1) - 1 THEN u - 2 ^ b ELSE u

CallToTwosComplement ==
    /\ status = "idle"
    /\ \E b \in 1..MaxTcBits :
         \E v \in (-(2 ^ (b - 1)) - 2)..(2 ^ (b - 1) + 1) :
            /\ op' = "to_twos_complement"
            /\ val' = v
            /\ bits' = b
            /\ tc' = to_twos_complement(v, b)
            /\ status' = "returned"
    /\ UNCHANGED <<x, fmt, rounding, q, clipped, n_sat, y, qamVars,
                   costasVars, otherVars>>

Init ==
    /\ status = "idle"
    /\ op = "none"
    /\ x = <<>>
    /\ fmt = QFormat(1, 0)
    /\ rounding = "convergent"
    /\ q = <<>>
    /\ clipped = <<>>
    /\ n_sat = 0
    /\ y = <<>>
    /\ val = 0
    /\ bits = 1
    /\ tc = 0
    /\ m_pc = "idle"
    /\ m_op = "none"
    /\ m_bits = <<>>
    /\ m_syms = <<>>
    /\ m_k = 0
    /\ m_I = <<>>
    /\ m_Q = <<>>
    /\ c_pc = "idle"
    /\ c_n = 0
    /\ c_i = 0
    /\ Kp = 0
    /\ Ki = 0
    /\ phase = 0
    /\ omega = 0
    /\ in_I = 0
    /\ in_Q = 0
    /\ demod_I = 0
    /\ demod_Q = 0
    /\ error_trace = 0
    /\ phase_trace = 0
    /\ omega_trace = 0
    /\ r_pc = "idle"
    /\ r_mod = "none"
    /\ r_N = 1
    /\ r_sps = 1
    /\ r_alpha = 1
    /\ r_i = 0
    /\ r_h = <<>>
    /\ r_norm = FALSE
    /\ e_pc = "idle"
    /\ e_kind = "none"
    /\ e_data = <<>>
    /\ e_fmt = QFormat(1, 0)
    /\ e_comment = ""
    /\ e_name = <<>>
    /\ e_i = 0
    /\ e_prior = <<>>
    /\ e_file = <<>>
    /\ e_prev = [set |-> FALSE, kind |-> "none", data |-> <<>>,
                 fmt |-> QFormat(1, 0), comment |-> "", name |-> <<>>,
                 file |-> <<>>]
    /\ g_pc = "idle"
    /\ g_nsym = 0
    /\ g_sps = 1
    /\ g_ntaps = 1
    /\ g_alpha = 1
    /\ g_cause = "none"
    /\ g_files = {}
    /\ g_partial = {}
    /\ t_pc = "idle"
    /\ t_op = "none"
    /\ t_I = <<>>
    /\ t_Q = <<>>
    /\ t_h = <<>>
    /\ t_sps = 1
    /\ t_upI = <<>>
    /\ t_upQ = <<>>
    /\ t_outI = <<>>
    /\ t_outQ = <<>>
    /\ s_pc = "idle"
    /\ s_xI = 0
    /\ s_xQ = 0
    /\ s_hatI = 0
    /\ s_hatQ = 0
    /\ runs = [r \in RunIds |-> NoRun]
    /\ v_pc = "idle"
    /\ v_loader = "none"
    /\ v_header = TRUE
    /\ v_lines = <<>>
    /\ v_k = 0
    /\ I_all = <<>>
    /\ Q_all = <<>>
    /\ I_locked = <<>>
    /\ Q_locked = <<>>
    /\ v_data = <<>>
    /\ v_exc = "none"
    /\ b_pc = "idle"
    /\ b_v = 0
    /\ b_file = <<>>
    /\ b_int = [low |-> 0, fits |-> TRUE]
    /\ coeffs_q = 0

\* One call per behaviour: the functions are pure and keep nothing between
\* calls.
CallFloatToFixed ==
    /\ status = "idle"
    /\ \E xs \in Arrays, f \in Formats, mode \in RoundingArgs, ub \in CastKinds :
          float_to_fixed(xs, f, mode, ub)

NextCodec ==
    \/ CallFloatToFixed
    \/ fixed_to_float
    \/ CallToTwosComplement

SpecCodec == Init /\ [][NextCodec]_vars

\* ------------------------------------------------------- 16-QAM mapper
\* Amplitudes are integers in units of 1/sqrt(10): bits_to_symbols
\* multiplies the raw level by QAM16_NORM = 1/sqrt(10), qam16_map divides it
\* by sqrt(10), and the two give the same float64 for each of the levels.
MaxBitLen == 8
MaxSymLen == 2

GRAY_MAP_AXIS_binary(b) ==
    CASE b = 0 -> -3 [] b = 1 -> -1 [] b = 2 -> 1 [] b = 3 -> 3

GRAY_MAP_AXIS_dup(b) ==
    CASE b = 0 -> -3 [] b = 1 -> -1 [] b = 3 -> -1 [] b = 2 -> 3

GRAY_MAP_AXIS(b) ==
    CASE b = 0 -> -3 [] b = 1 -> -1 [] b = 3 -> 1 [] b = 2 -> 3

\* i_bits = (sym >> 2) & 0x3, q_bits = sym & 0x3
QAM16_TABLE(sym) ==
    <<GRAY_MAP_AXIS((sym \div 4) % 4), GRAY_MAP_AXIS(sym % 4)>>

GRAY_MAP_swapped(b) ==
    CASE b = 0 -> -3 [] b = 1 -> -1 [] b = 2 -> 1 [] b = 3 -> 3

GRAY_MAP(b) ==
    CASE b = 0 -> -3 [] b = 1 -> -1 [] b = 3 -> 1 [] b = 2 -> 3

qam16_map(symbols_4bit) ==
    [I |-> [i \in 1..Len(symbols_4bit) |->
                GRAY_MAP((symbols_4bit[i] \div 4) % 4)],
     Q |-> [i \in 1..Len(symbols_4bit) |-> GRAY_MAP(symbols_4bit[i] % 4)]]

\* (bits[4k] << 3) | (bits[4k+1] << 2) | (bits[4k+2] << 1) | bits[4k+3],
\* k counted from 0 and the sequence from 1.
Nibble(bs, k) ==
    8 * bs[4 * k + 1] + 4 * bs[4 * k + 2] + 2 * bs[4 * k + 3] + bs[4 * k + 4]

LengthOk_even(bs) == Len(bs) % 2 = 0

\* assert len(bits) % 4 == 0
LengthOk(bs) == Len(bs) % 4 = 0

RECURSIVE SeqsOfLen(_, _)
SeqsOfLen(S, n) ==
    IF n = 0 THEN {<<>>}
    ELSE {Append(t, e) : t \in SeqsOfLen(S, n - 1), e \in S}

SeqsUpTo(S, n) == UNION {SeqsOfLen(S, m) : m \in 0..n}

CallBitsToSymbols ==
    /\ m_pc = "idle"
    /\ \E bs \in SeqsUpTo({0, 1}, MaxBitLen) :
          /\ m_op' = "bits_to_symbols"
          /\ m_bits' = bs
          /\ m_pc' = "assert"
    /\ UNCHANGED <<m_syms, m_k, m_I, m_Q, codecVars, costasVars, otherVars>>

BtsAssert ==
    /\ m_pc = "assert"
    /\ m_pc' = IF LengthOk(m_bits) THEN "loop" ELSE "raised"
    /\ UNCHANGED <<m_op, m_bits, m_syms, m_k, m_I, m_Q, codecVars, costasVars, otherVars>>

\* n_sym = len(bits) // 4; one pass of the loop over k
BtsMap ==
    /\ m_pc = "loop"
    /\ m_k < Len(m_bits) \div 4
    /\ LET raw == QAM16_TABLE(Nibble(m_bits, m_k))
       IN  /\ m_I' = Append(m_I, raw[1])
           /\ m_Q' = Append(m_Q, raw[2])
    /\ m_k' = m_k + 1
    /\ UNCHANGED <<m_pc, m_op, m_bits, m_syms, codecVars, costasVars, otherVars>>

BtsReturn ==
    /\ m_pc = "loop"
    /\ m_k = Len(m_bits) \div 4
    /\ m_pc' = "returned"
    /\ UNCHANGED <<m_op, m_bits, m_syms, m_k, m_I, m_Q, codecVars, costasVars, otherVars>>

CallQam16Map ==
    /\ m_pc = "idle"
    /\ \E ss \in SeqsUpTo(0..15, MaxSymLen) :
          /\ m_op' = "qam16_map"
          /\ m_syms' = ss
          /\ m_I' = qam16_map(ss).I
          /\ m_Q' = qam16_map(ss).Q
          /\ m_pc' = "returned"
    /\ UNCHANGED <<m_bits, m_k, codecVars, costasVars, otherVars>>

NextQam ==
    \/ CallBitsToSymbols
    \/ BtsAssert
    \/ BtsMap
    \/ BtsReturn
    \/ CallQam16Map

SpecQam == Init /\ [][NextQam]_vars

\* --------------------------------------------------- costas_loop_float
\* Exact arithmetic on the inputs for which the loop stays on a lattice:
\* amplitudes are integers in units of 1/(2*sqrt(10)) (the levels are -6,
\* -2, 2, 6 and slicer_th is 4), the phase error is an integer in units of
\* 1/40, angles are integers in quarter turns (pi = 2, 2*pi = 4), where cos
\* and sin are 0, 1 or -1, and a gain is an integer number of quarter turns
\* per unit of phase error (Kp = 1 is 20*pi rad).  The output arrays are
\* kept by their length c_i and their last entry: the loop writes entry i
\* and never reads one.  The model is of the real-number loop; float64
\* rounding of cos, sin and the modulo is not modelled.
MaxSyms == 2
MaxInitTurns == 2
MaxGain == 1

\* slicer_th = 2 / np.sqrt(10)
slicer_th == 4

\* The received amplitudes tried: the four levels, the three decision
\* boundaries, and a point of each inner decision region that is no level.
Amps == {-6, -4, -3, -2, 0, 2, 3, 4, 6}

\* A slicer that knows the outer levels only.
slice_qam_outer(v) == IF v < 0 THEN -6 ELSE 6

slice_qam(v) ==
    IF v < -slicer_th THEN -6
    ELSE IF v < 0 THEN -2
    ELSE IF v < slicer_th THEN 2
    ELSE 6

\* cos(-phase) and sin(-phase) at a whole number of quarter turns
cos_neg(p) == CASE p % 4 = 0 -> 1 [] p % 4 = 1 -> 0 [] p % 4 = 2 -> -1 [] p % 4 = 3 -> 0

sin_neg(p) == CASE p % 4 = 0 -> 0 [] p % 4 = 1 -> -1 [] p % 4 = 2 -> 0 [] p % 4 = 3 -> 1

rot_I(I_in, Q_in, p) == I_in * cos_neg(p) - Q_in * sin_neg(p)

\* A rotation by +phase in place of -phase.
rot_Q_forward(I_in, Q_in, p) == Q_in * cos_neg(p) - I_in * sin_neg(p)

rot_Q(I_in, Q_in, p) == I_in * sin_neg(p) + Q_in * cos_neg(p)

phase_err_sum(rI, rQ) == rI * slice_qam(rQ) + rQ * slice_qam(rI)

\* rot_I * Q_hat - rot_Q * I_hat
phase_err(rI, rQ) == rI * slice_qam(rQ) - rQ * slice_qam(rI)

wrap_none(p) == p

\* np.mod(phase + np.pi, 2 * np.pi) - np.pi
wrap(p) == ((p + 2) % 4) - 2

\* np.deg2rad and np.rad2deg between degrees and the model's quarter turns
deg2rad(d) == d \div 90

rad2deg(p) == 90 * p

\* The initial_phase_deg values tried: whole numbers of quarter turns.
InitialPhases == {90 * k : k \in (-MaxInitTurns)..MaxInitTurns}

\* phase = np.deg2rad(initial_phase_deg); omega = 0.0
CallCostas ==
    /\ c_pc = "idle"
    /\ \E len \in 0..MaxSyms, initial_phase_deg \in InitialPhases,
          kp \in 0..MaxGain, ki \in 0..MaxGain :
          /\ c_n' = len
          /\ Kp' = kp
          /\ Ki' = ki
          /\ phase' = deg2rad(initial_phase_deg)
    /\ omega' = 0
    /\ c_i' = 0
    /\ c_pc' = "loop"
    /\ UNCHANGED <<in_I, in_Q, demod_I, demod_Q, error_trace, phase_trace,
                   omega_trace, codecVars, qamVars, otherVars>>

\* One pass of the loop body; the symbol at index i is any sample.
CostasStep ==
    /\ c_pc = "loop"
    /\ c_i < c_n
    /\ \E I_in \in Amps, Q_in \in Amps :
         LET rI == rot_I(I_in, Q_in, phase)
             rQ == rot_Q(I_in, Q_in, phase)
             err == phase_err(rI, rQ)
             om == omega + Ki * err
             ph == wrap(phase + om + Kp * err)
         IN  /\ in_I' = I_in
             /\ in_Q' = Q_in
             /\ demod_I' = rI
             /\ demod_Q' = rQ
             /\ error_trace' = err
             /\ omega' = om
             /\ phase' = ph
             /\ phase_trace' = rad2deg(ph)
             /\ omega_trace' = om
    /\ c_i' = c_i + 1
    /\ UNCHANGED <<c_pc, c_n, Kp, Ki, codecVars, qamVars, otherVars>>

CostasReturn ==
    /\ c_pc = "loop"
    /\ c_i = c_n
    /\ c_pc' = "done"
    /\ UNCHANGED <<c_n, c_i, Kp, Ki, phase, omega, in_I, in_Q,
                   demod_I, demod_Q, error_trace, phase_trace, omega_trace,
                   codecVars, qamVars, otherVars>>

NextCostas ==
    \/ CallCostas
    \/ CostasStep
    \/ CostasReturn

SpecCostas == Init /\ [][NextCostas]_vars

\* ------------------------------------------------------------ design_rrc
\* golden_model.design_rrc and debug_rx_chain.design_rrc.  Times are kept
\* doubled and in samples: tap i is at n = i - (N-1)/2, so 2n is the integer
\* 2i - (N-1), and t = n / sps.  alpha is a number of quarters.  For these
\* inputs the comparisons against 1e-12 are decided exactly: two distinct
\* values of |t| or 1/(4 alpha) differ by far more.  A tap is kept as the
\* term that defines it, not as a number: the constant of the t = 0 case,
\* the constant of the t = +-1/(4 alpha) case, or num(t)/den(t), where num
\* and den are odd in t (sin is odd, cos is even), each the product of the
\* sign of t and a positive-time factor.
MaxTaps == 5
MaxSps == 4
MaxAlpha4 == 4

RrcModules == {"golden_model", "debug_rx_chain"}

Sgn(v) == IF v < 0 THEN -1 ELSE IF v > 0 THEN 1 ELSE 0

AbsInt(v) == IF v < 0 THEN -v ELSE v

\* n = np.arange(N) - (N - 1) / 2, doubled
TimeIndex2_offcentre(i, N) == 2 * i - N

TimeIndex2(i, N) == 2 * i - (N - 1)

\* abs(ti) < 1e-12
IsZeroTime(n2) == n2 = 0

\* abs(abs(ti) - 1 / (4 * alpha)) < 1e-12, for alpha > 0:
\* |2n| / (2 sps) = 1 / a  with alpha = a / 4
IsSingularTime(n2, sps, a) == a * AbsInt(n2) = 2 * sps

\* np.zeros(N)
Zeros(N) == [j \in 1..N |-> [case |-> "unset", sgn |-> 0, at |-> 0]]

\* num = sin(pi t (1 - alpha)) + 4 alpha t cos(pi t (1 + alpha))
RrcNum(n2) == [sgn |-> Sgn(n2), at |-> AbsInt(n2)]

\* den = pi t (1 - (4 alpha t)^2)
RrcDen(n2) == [sgn |-> Sgn(n2), at |-> AbsInt(n2)]

\* The value assigned to h[i] at doubled time n2.
RrcTap(n2, sps, a) ==
    IF IsZeroTime(n2) THEN [case |-> "zero", sgn |-> 1, at |-> 0]
    ELSE IF IsSingularTime(n2, sps, a)
         THEN [case |-> "singular", sgn |-> 1, at |-> 0]
         ELSE [case |-> "general",
               sgn |-> RrcNum(n2).sgn * RrcDen(n2).sgn,
               at |-> RrcNum(n2).at]

notRrc == <<codecVars, qamVars, costasVars, expVars, mainVars, txVars,
           toolVars>>

CallDesignRrc ==
    /\ r_pc = "idle"
    /\ \E mod \in RrcModules, N \in 0..MaxTaps, sps \in 1..MaxSps,
          a \in 0..MaxAlpha4 :
          /\ r_mod' = mod
          /\ r_N' = N
          /\ r_sps' = sps
          /\ r_alpha' = a
    /\ r_pc' = "entry"
    /\ UNCHANGED <<r_i, r_h, r_norm, notRrc>>

\* golden_model: assert num_taps % 2 == 1; debug_rx_chain has no check.
\* Then h = np.zeros(N).
RrcEntry ==
    /\ r_pc = "entry"
    /\ IF r_mod = "golden_model" /\ r_N % 2 # 1
       THEN /\ r_pc' = "raised"
            /\ UNCHANGED r_h
       ELSE /\ r_pc' = "loop"
            /\ r_h' = Zeros(r_N)
    /\ UNCHANGED <<r_mod, r_N, r_sps, r_alpha, r_i, r_norm, notRrc>>

\* One pass of the loop over t.  With alpha = 0 the second test divides by
\* zero (ZeroDivisionError) unless the first test took the tap.
RrcLoop ==
    /\ r_pc = "loop"
    /\ r_i < r_N
    /\ LET n2 == TimeIndex2(r_i, r_N)
       IN  IF ~IsZeroTime(n2) /\ r_alpha = 0
           THEN /\ r_pc' = "raised"
                /\ UNCHANGED <<r_i, r_h>>
           ELSE /\ r_h' = [r_h EXCEPT ![r_i + 1] = RrcTap(n2, r_sps, r_alpha)]
                /\ r_i' = r_i + 1
                /\ UNCHANGED r_pc
    /\ UNCHANGED <<r_mod, r_N, r_sps, r_alpha, r_norm, notRrc>>

\* h /= np.sqrt(np.sum(h**2)); return h
RrcReturn ==
    /\ r_pc = "loop"
    /\ r_i = r_N
    /\ r_norm' = TRUE
    /\ r_pc' = "returned"
    /\ UNCHANGED <<r_mod, r_N, r_sps, r_alpha, r_i, r_h, notRrc>>

NextRrc ==
    \/ CallDesignRrc
    \/ RrcEntry
    \/ RrcLoop
    \/ RrcReturn

SpecRrc == Init /\ [][NextRrc]_vars

\* ---------------------------------------------------------- exporters
\* export_hex, export_mem and export_verilog_include.  A file is the
\* sequence of its lines; a line is a record of its kind t and of the values
\* formatted into it: the comment c, the digits txt written by the hex or
\* binary conversion (one character each), the integers num and idx written
\* in decimal, the format f and the identifier id.
MaxExpIntBits == 3
MaxExpFracBits == 2
MaxData == 2
MaxTwiceLen == 1

ExportFormats ==
    {QFormat(ib, fb) : ib \in 1..MaxExpIntBits, fb \in 0..MaxExpFracBits}

Digits == <<"0", "1", "2", "3", "4", "5", "6", "7", "8", "9",
            "A", "B", "C", "D", "E", "F">>

\* The digits of n >= 0 in the base, most significant first, without
\* padding.
RECURSIVE ToBase(_, _)
ToBase(n, base) ==
    IF n < base THEN <<Digits[n + 1]>>
    ELSE Append(ToBase(n \div base, base), Digits[(n % base) + 1])

RECURSIVE ZeroPad(_, _)
ZeroPad(ds, width) ==
    IF Len(ds) >= width THEN ds ELSE ZeroPad(<<"0">> \o ds, width)

\* The format specification 0<width> of an unpadded conversion
FormatInt_nopad(v, width, base) ==
    IF v < 0 THEN <<"-">> \o ToBase(-v, base) ELSE ToBase(v, base)

\* f"{v:0{width}X}" (base 16) and f"{v:0{width}b}" (base 2): zero padding
\* to the width, after the sign if there is one; never truncated.
FormatInt(v, width, base) ==
    IF v < 0 THEN <<"-">> \o ZeroPad(ToBase(-v, base), width - 1)
    ELSE ZeroPad(ToBase(v, base), width)

\* fmt.total_bits // 4
hex_width_floor(f) == total_bits(f) \div 4

\* hex_width = (fmt.total_bits + 3) // 4
hex_width(f) == (total_bits(f) + 3) \div 4

NoFormat == QFormat(0, 0)

Line(t, c, txt, num, idx, f, id) ==
    [t |-> t, c |-> c, txt |-> txt, num |-> num, idx |-> idx, f |-> f,
     id |-> id]

UpperCase == <<"A", "C", "E", "F", "O", "P", "R", "S", "T">>
LowerCase == <<"a", "c", "e", "f", "o", "p", "r", "s", "t">>

\* str.lower()
Lower(name) ==
    [k \in 1..Len(name) |->
        IF \E u \in 1..Len(UpperCase) : UpperCase[u] = name[k]
        THEN LowerCase[CHOOSE u \in 1..Len(UpperCase) : UpperCase[u] = name[k]]
        ELSE name[k]]

\* str.rstrip("s")
RECURSIVE RStripS(_)
RStripS(name) ==
    IF Len(name) > 0 /\ name[Len(name)] = "s"
    THEN RStripS(SubSeq(name, 1, Len(name) - 1))
    ELSE name

\* str.endswith(suffix)
EndsWith(name, suffix) ==
    /\ Len(name) >= Len(suffix)
    /\ SubSeq(name, Len(name) - Len(suffix) + 1, Len(name)) = suffix

Coeff == <<"c", "o", "e", "f", "f">>

\* func_name, from array_name
FuncName(name) ==
    LET func_name == RStripS(Lower(name))
    IN  IF EndsWith(func_name, <<"_">> \o Coeff) THEN func_name
        ELSE IF ~EndsWith(func_name, Coeff) THEN func_name \o <<"_">> \o Coeff
             ELSE func_name

\* open(filepath, "a") instead of "w"
OpenForAppend(prior) == prior

\* open(filepath, "w"): the file is created or truncated
OpenForWrite(prior) == <<>>

\* The lines written before the loop over data.
HeaderLines(kind, data, f, comment, name) ==
    LET cl == IF comment # ""
              THEN <<Line("comment", comment, <<>>, 0, 0, NoFormat, <<>>)>>
              ELSE <<>>
        fl == <<Line("format", "", <<>>, Len(data), 0, f, <<>>)>>
    IN  IF kind = "v"
        THEN <<Line("banner", "", <<>>, 0, 0, NoFormat, <<>>)>> \o cl \o fl
             \o <<Line("do not edit", "", <<>>, 0, 0, NoFormat, <<>>),
                  Line("blank", "", <<>>, 0, 0, NoFormat, <<>>),
                  Line("localparam", "", <<>>, Len(data), 0, NoFormat, name),
                  Line("blank", "", <<>>, 0, 0, NoFormat, <<>>),
                  Line("function", "", <<>>, total_bits(f) - 1, 0, NoFormat,
                       FuncName(name)),
                  Line("input", "", <<>>, 0, 0, NoFormat, <<>>),
                  Line("case", "", <<>>, 0, 0, NoFormat, <<>>)>>
        ELSE cl \o fl

\* The line written for element i (from 0) of data, of value v.
DataLine(kind, i, v, f, name) ==
    LET tcv == to_twos_complement(v, total_bits(f))
    IN  CASE kind = "hex" ->
               Line("data", "", FormatInt(tcv, hex_width(f), 16), 0, 0,
                    NoFormat, <<>>)
          [] kind = "mem" ->
               Line("data", "", FormatInt(tcv, total_bits(f), 2), 0, 0,
                    NoFormat, <<>>)
          [] kind = "v" ->
               Line("entry", "", FormatInt(tcv, (total_bits(f) + 3) \div 4, 16),
                    v, i, f, FuncName(name))

\* Nothing after the loop
FooterLines_none(kind, f, name) == <<>>

\* The lines written after the loop over data.
FooterLines(kind, f, name) ==
    IF kind = "v"
    THEN <<Line("default", "", <<"0", "0", "0">>, 0, 0, f, FuncName(name)),
           Line("endcase", "", <<>>, 0, 0, NoFormat, <<>>),
           Line("endfunction", "", <<>>, 0, 0, NoFormat, <<>>)>>
    ELSE <<>>

ExportKinds == {"hex", "mem", "v"}

Comments == {"", "RRC"}

ArrayNames == {<<"C", "O", "E", "F", "F">>,
               <<"R", "R", "C", "_", "C", "O", "E", "F", "F", "S">>,
               <<"T", "A", "P", "S">>}

NamesOf(kind) == IF kind = "v" THEN ArrayNames ELSE {<<>>}

\* What the destination can hold before the call: nothing, or an older and
\* longer file.
StaleLine == Line("stale", "", <<>>, 0, 0, NoFormat, <<>>)

RECURSIVE Stale(_)
Stale(n) == IF n = 0 THEN <<>> ELSE Append(Stale(n - 1), StaleLine)

PriorFiles == {<<>>, Stale(MaxData + 14)}

\* Values of an element of data: the codes of the format, and codes outside
\* it.
CodesOf(f) == min_int(f)..max_int(f)

OutOfRange(f) == {min_int(f) - 1, max_int(f) + 1, 2 ^ total_bits(f),
                  -(2 ^ total_bits(f)) - 1}

EdgeCodes(f) == {min_int(f), -1, 0, max_int(f)}

ExportArrays(f) ==
    {<<>>} \cup {<<v>> : v \in CodesOf(f) \cup OutOfRange(f)}
           \cup UNION {SeqsOfLen(EdgeCodes(f), len) : len \in 2..MaxData}

notExp == <<codecVars, qamVars, costasVars, rrcVars, mainVars, txVars,
           toolVars>>

\* The call: the arguments are bound, nothing is written yet.
Export(kind, data, f, comment, name, prior) ==
    /\ e_kind' = kind
    /\ e_data' = data
    /\ e_fmt' = f
    /\ e_comment' = comment
    /\ e_name' = name
    /\ e_prior' = prior
    /\ e_file' = prior
    /\ e_i' = 0
    /\ e_pc' = "open"

CallExport ==
    /\ e_pc = "idle"
    /\ \E kind \in ExportKinds, f \in ExportFormats, comment \in Comments,
          prior \in PriorFiles :
          \E data \in ExportArrays(f), name \in NamesOf(kind) :
             Export(kind, data, f, comment, name, prior)
    /\ UNCHANGED <<e_prev, notExp>>

\* with open(filepath, "w", encoding="utf-8") as f
ExpOpen ==
    /\ e_pc = "open"
    /\ e_file' = OpenForWrite(e_file)
    /\ e_pc' = "header"
    /\ UNCHANGED <<e_kind, e_data, e_fmt, e_comment, e_name, e_i, e_prior,
                   e_prev, notExp>>

ExpHeader ==
    /\ e_pc = "header"
    /\ e_file' = e_file \o HeaderLines(e_kind, e_data, e_fmt, e_comment, e_name)
    /\ e_pc' = "body"
    /\ UNCHANGED <<e_kind, e_data, e_fmt, e_comment, e_name, e_i, e_prior,
                   e_prev, notExp>>

\* One pass of the loop over data.
ExpLine ==
    /\ e_pc = "body"
    /\ e_i < Len(e_data)
    /\ e_file' = Append(e_file,
                        DataLine(e_kind, e_i, e_data[e_i + 1], e_fmt, e_name))
    /\ e_i' = e_i + 1
    /\ UNCHANGED <<e_pc, e_kind, e_data, e_fmt, e_comment, e_name, e_prior,
                   e_prev, notExp>>

\* The lines after the loop, the end of the with block, return filepath.
ExpReturn ==
    /\ e_pc = "body"
    /\ e_i = Len(e_data)
    /\ e_file' = e_file \o FooterLines(e_kind, e_fmt, e_name)
    /\ e_pc' = "returned"
    /\ UNCHANGED <<e_kind, e_data, e_fmt, e_comment, e_name, e_i, e_prior,
                   e_prev, notExp>>

NextExport ==
    \/ CallExport
    \/ ExpOpen
    \/ ExpHeader
    \/ ExpLine
    \/ ExpReturn

SpecExport == Init /\ [][NextExport]_vars

\* Two exports in a row, the second to the file the first wrote or to
\* another one.
TwiceFormats == {QFormat(1, 1), QFormat(MaxExpIntBits, MaxExpFracBits)}

TwiceArrays == SeqsUpTo({-1, 0}, MaxTwiceLen)

TwiceNames == {<<"C", "O", "E", "F", "F">>, <<"T", "A", "P", "S">>}

CallExportFirst ==
    /\ e_pc = "idle"
    /\ \E kind \in ExportKinds, f \in TwiceFormats, comment \in Comments,
          prior \in PriorFiles, data \in TwiceArrays :
          \E name \in NamesOf(kind) \cap ({<<>>} \cup TwiceNames) :
             Export(kind, data, f, comment, name, prior)
    /\ UNCHANGED <<e_prev, notExp>>

CallExportAgain ==
    /\ e_pc = "returned"
    /\ ~e_prev.set
    /\ e_prev' = [set |-> TRUE, kind |-> e_kind, data |-> e_data,
                  fmt |-> e_fmt, comment |-> e_comment, name |-> e_name,
                  file |-> e_file]
    /\ \E kind \in ExportKinds, f \in TwiceFormats, comment \in Comments,
          prior \in PriorFiles \cup {e_file}, data \in TwiceArrays :
          \E name \in NamesOf(kind) \cap ({<<>>} \cup TwiceNames) :
             Export(kind, data, f, comment, name, prior)
    /\ UNCHANGED notExp

NextExportTwice ==
    \/ CallExportFirst
    \/ CallExportAgain
    \/ ExpOpen
    \/ ExpHeader
    \/ ExpLine
    \/ ExpReturn

SpecExportTwice == Init /\ [][NextExportTwice]_vars

\* --------------------------------------------------- golden_model.main
\* The pipeline, one action per step between two exports.  An export call
\* writes its files in order; each write can fail in the operating system
\* (OSError), which leaves the file being written incomplete and ends the
\* run.
MaxNsym == 2

\* Whether golden_model.design_rrc raises: the assert, or the division by
\* 4 * alpha = 0 at the first tap that is not the t = 0 tap.
DesignRrcRaises(N, a) ==
    \/ N % 2 # 1
    \/ a = 0 /\ \E i \in 0..(N - 1) : ~IsZeroTime(TimeIndex2(i, N))

\* np.convolve(a, v, mode="same") raises ValueError for an empty a or v.
ConvolveRaises(lenA, lenV) == lenA = 0 \/ lenV = 0

\* export_iq_vectors(I, Q, name): <name>_I.hex, then <name>_Q.hex
IqFiles(name) ==
    CASE name = "qam16_symbols" -> <<"qam16_symbols_I.hex", "qam16_symbols_Q.hex">>
      [] name = "tx_filtered" -> <<"tx_filtered_I.hex", "tx_filtered_Q.hex">>
      [] name = "rx_noisy" -> <<"rx_noisy_I.hex", "rx_noisy_Q.hex">>

\* export_all(..., name="rrc_coeffs"): hex, then mem, then v
AllFiles == <<"rrc_coeffs.hex", "rrc_coeffs.mem", "rrc_coeffs.v">>

notMain == <<codecVars, qamVars, costasVars, rrcVars, expVars, txVars,
           toolVars>>

\* The files are written in order; the first k succeed.  With k below the
\* number of files, file k+1 is opened and left incomplete.
WriteFiles(files, next) ==
    \E k \in 0..Len(files) :
       /\ g_files' = g_files \cup {files[j] : j \in 1..k}
       /\ IF k = Len(files)
          THEN /\ g_pc' = next
               /\ UNCHANGED <<g_partial, g_cause>>
          ELSE /\ g_partial' = g_partial \cup {files[k + 1]}
               /\ g_cause' = "OSError"
               /\ g_pc' = "aborted"

CallMain ==
    /\ g_pc = "idle"
    /\ \E nsym \in 0..MaxNsym, sps \in 1..MaxSps, ntaps \in 1..MaxTaps,
          a \in 0..MaxAlpha4 :
          /\ g_nsym' = nsym
          /\ g_sps' = sps
          /\ g_ntaps' = ntaps
          /\ g_alpha' = a
    /\ g_pc' = "map"
    /\ UNCHANGED <<g_cause, g_files, g_partial, notMain>>

\* Steps 1 and 2: generate_bits(nsym * 4), bits_to_symbols; the length is a
\* multiple of 4, so the assert of bits_to_symbols holds.
MainMap ==
    /\ g_pc = "map"
    /\ LengthOk([j \in 1..(g_nsym * 4) |-> 0])
    /\ g_pc' = "export_symbols"
    /\ UNCHANGED <<g_nsym, g_sps, g_ntaps, g_alpha, g_cause, g_files,
                   g_partial, notMain>>

\* export_iq_vectors(I_sym, Q_sym, "qam16_symbols", Q1_11)
MainExportSymbols ==
    /\ g_pc = "export_symbols"
    /\ WriteFiles(IqFiles("qam16_symbols"), "design")
    /\ UNCHANGED <<g_nsym, g_sps, g_ntaps, g_alpha, notMain>>

\* Step 3: design_rrc(num_taps=args.ntaps, sps=args.sps, alpha=args.alpha)
MainDesignRrc ==
    /\ g_pc = "design"
    /\ IF DesignRrcRaises(g_ntaps, g_alpha)
       THEN /\ g_pc' = "aborted"
            /\ g_cause' = IF g_ntaps % 2 # 1 THEN "AssertionError"
                          ELSE "ZeroDivisionError"
       ELSE /\ g_pc' = "export_coeffs"
            /\ UNCHANGED g_cause
    /\ UNCHANGED <<g_nsym, g_sps, g_ntaps, g_alpha, g_files, g_partial,
                   notMain>>

\* rrc_to_fixed, export_all(h_fixed, VECTOR_DIR, Q1_11, name="rrc_coeffs")
MainExportCoeffs ==
    /\ g_pc = "export_coeffs"
    /\ WriteFiles(AllFiles, "tx")
    /\ UNCHANGED <<g_nsym, g_sps, g_ntaps, g_alpha, notMain>>

\* Step 4: upsample_and_filter, twice
MainTx ==
    /\ g_pc = "tx"
    /\ IF ConvolveRaises(g_nsym * g_sps, g_ntaps)
       THEN /\ g_pc' = "aborted"
            /\ g_cause' = "ValueError"
       ELSE /\ g_pc' = "export_tx"
            /\ UNCHANGED g_cause
    /\ UNCHANGED <<g_nsym, g_sps, g_ntaps, g_alpha, g_files, g_partial,
                   notMain>>

\* export_iq_vectors(I_tx_q, Q_tx_q, "tx_filtered", Q1_11)
MainExportTx ==
    /\ g_pc = "export_tx"
    /\ WriteFiles(IqFiles("tx_filtered"), "export_rx")
    /\ UNCHANGED <<g_nsym, g_sps, g_ntaps, g_alpha, notMain>>

\* Step 5: add_awgn, export_iq_vectors(I_rx, Q_rx, "rx_noisy", Q1_11)
MainExportRx ==
    /\ g_pc = "export_rx"
    /\ WriteFiles(IqFiles("rx_noisy"), "rx")
    /\ UNCHANGED <<g_nsym, g_sps, g_ntaps, g_alpha, notMain>>

\* Steps 6 and 7 and the summary: no vector file is written.
MainRx ==
    /\ g_pc = "rx"
    /\ g_pc' = "done"
    /\ UNCHANGED <<g_nsym, g_sps, g_ntaps, g_alpha, g_cause, g_files,
                   g_partial, notMain>>

NextMain ==
    \/ CallMain
    \/ MainMap
    \/ MainExportSymbols
    \/ MainDesignRrc
    \/ MainExportCoeffs
    \/ MainTx
    \/ MainExportTx
    \/ MainExportRx
    \/ MainRx

SpecMain == Init /\ [][NextMain]_vars

\* ------------------------------------------ transmit chain and sampler
\* upsample_and_filter (golden_model), tx_process and gardner_ted_simple
\* (debug_rx_chain).  Samples and taps are integers; the sums are exact.
SPS == 4
NUM_TAPS == 5
MaxStream == 14

RECURSIVE SumTo(_, _)
\* sum of f[1..n]
SumTo(f, n) == IF n = 0 THEN 0 ELSE SumTo(f, n - 1) + f[n]

\* np.convolve(a, v, mode="full"): entry k (from 1) is the sum of
\* a[i] * v[k + 1 - i]
ConvolveFull(a, v) ==
    [k \in 1..(Len(a) + Len(v) - 1) |->
        SumTo([i \in 1..Len(a) |->
                 IF k + 1 - i \in 1..Len(v) THEN a[i] * v[k + 1 - i] ELSE 0],
              Len(a))]

Max(a, b) == IF a >= b THEN a ELSE b

Min(a, b) == IF a <= b THEN a ELSE b

\* np.convolve(a, v, mode="same"), for non-empty a and v: the centre of the
\* full convolution, of the length of the longer argument
ConvolveSame(a, v) ==
    LET off == (Min(Len(a), Len(v)) - 1) \div 2
    IN  SubSeq(ConvolveFull(a, v), off + 1, off + Max(Len(a), Len(v)))

\* up = np.zeros(len(sym) * sps); up[::sps] = sym
ZeroInsert(sym, sps) ==
    [j \in 1..(Len(sym) * sps) |->
        IF (j - 1) % sps = 0 THEN sym[(j - 1) \div sps + 1] ELSE 0]

\* arr[start::step], start >= 0 and step >= 1
RECURSIVE SliceFrom(_, _, _)
SliceFrom(arr, start, step) ==
    IF start >= Len(arr) THEN <<>>
    ELSE <<arr[start + 1]>> \o SliceFrom(arr, start + step, step)

\* skip samples instead of skip symbols
gardner_start_samples(ntaps, sps) == ntaps \div 2

\* skip = NUM_TAPS // 2; the first index taken is skip * SPS
gardner_start(ntaps, sps) == (ntaps \div 2) * sps

SymbolValues == {-1, 1}

TapValues == {1, 2}

SymbolPairs ==
    UNION {SeqsOfLen(SymbolValues, len) \X SeqsOfLen(SymbolValues, len) :
           len \in 0..MaxNsym}

Filters == UNION {SeqsOfLen(TapValues, len) : len \in 1..MaxTaps}

notTx == <<codecVars, qamVars, costasVars, rrcVars, expVars, mainVars,
           toolVars>>

Shape(name, iq, h, sps) ==
    /\ t_op' = name
    /\ t_I' = iq[1]
    /\ t_Q' = iq[2]
    /\ t_h' = h
    /\ t_sps' = sps
    /\ t_pc' = "upsample"
    /\ UNCHANGED <<t_upI, t_upQ, t_outI, t_outQ, notTx>>

\* golden_model.upsample_and_filter(I, Q, h, sps)
CallUpsampleAndFilter ==
    /\ t_pc = "idle"
    /\ \E iq \in SymbolPairs, h \in Filters, sps \in 1..MaxSps :
          Shape("upsample_and_filter", iq, h, sps)

\* debug_rx_chain.tx_process(I_sym, Q_sym, h), with the global SPS
CallTxProcess ==
    /\ t_pc = "idle"
    /\ \E iq \in SymbolPairs, h \in Filters :
          Shape("tx_process", iq, h, SPS)

TxUpsample ==
    /\ t_pc = "upsample"
    /\ t_upI' = ZeroInsert(t_I, t_sps)
    /\ t_upQ' = ZeroInsert(t_Q, t_sps)
    /\ t_pc' = "convolve"
    /\ UNCHANGED <<t_op, t_I, t_Q, t_h, t_sps, t_outI, t_outQ, notTx>>

TxConvolve ==
    /\ t_pc = "convolve"
    /\ IF ConvolveRaises(Len(t_upI), Len(t_h))
          \/ ConvolveRaises(Len(t_upQ), Len(t_h))
       THEN /\ t_pc' = "raised"
            /\ UNCHANGED <<t_outI, t_outQ>>
       ELSE /\ t_outI' = ConvolveSame(t_upI, t_h)
            /\ t_outQ' = ConvolveSame(t_upQ, t_h)
            /\ t_pc' = "returned"
    /\ UNCHANGED <<t_op, t_I, t_Q, t_h, t_sps, t_upI, t_upQ, notTx>>

\* debug_rx_chain.gardner_ted_simple(I_mf, Q_mf).  Sample j of I_mf is
\* given the value j and sample j of Q_mf the value -j - 1, so that an
\* output sample tells its index.
CallGardner ==
    /\ t_pc = "idle"
    /\ \E len \in 0..MaxStream :
         LET I_mf == [j \in 1..len |-> j - 1]
             Q_mf == [j \in 1..len |-> -j]
         IN  /\ t_I' = I_mf
             /\ t_Q' = Q_mf
             /\ t_outI' = SliceFrom(I_mf, gardner_start(NUM_TAPS, SPS), SPS)
             /\ t_outQ' = SliceFrom(Q_mf, gardner_start(NUM_TAPS, SPS), SPS)
    /\ t_op' = "gardner_ted_simple"
    /\ t_pc' = "returned"
    /\ UNCHANGED <<t_h, t_sps, t_upI, t_upQ, notTx>>

NextTx ==
    \/ CallUpsampleAndFilter
    \/ CallTxProcess
    \/ TxUpsample
    \/ TxConvolve
    \/ CallGardner

SpecTx == Init /\ [][NextTx]_vars

\* ------------------------------------------------------------ slice_qam
\* The slicer of costas_loop_float, applied to a symbol: I_hat and Q_hat.
MaxSliceX == 8

notSlicer == <<codecVars, qamVars, costasVars, rrcVars, expVars, mainVars,
               txVars, pairVars, csvVars, readVars>>

\* rot_I and rot_Q of a symbol reach the slicer.
CallSlice ==
    /\ s_pc \in {"idle", "returned"}
    /\ \E xI \in (-MaxSliceX)..MaxSliceX, xQ \in (-MaxSliceX)..MaxSliceX :
          /\ s_xI' = xI
          /\ s_xQ' = xQ
    /\ s_pc' = "called"
    /\ UNCHANGED <<s_hatI, s_hatQ, notSlicer>>

\* I_hat = slice_qam(rot_I); Q_hat = slice_qam(rot_Q)
SliceReturn ==
    /\ s_pc = "called"
    /\ s_hatI' = slice_qam(s_xI)
    /\ s_hatQ' = slice_qam(s_xQ)
    /\ s_pc' = "returned"
    /\ UNCHANGED <<s_xI, s_xQ, notSlicer>>

NextSlicer ==
    \/ CallSlice
    \/ SliceReturn

SpecSlicer == Init /\ [][NextSlicer]_vars

\* ------------------------------------------- costas_loop_float, side by side
\* Calls of costas_loop_float in progress together (one per thread or
\* process of a sweep), each on its own arguments; a pass of any of them may
\* come next.
MaxPairSyms == 2

\* The received symbols tried: two points off the grid, one of them on a
\* decision boundary.
PairSymbols == {<<0, 3>>, <<3, -2>>}

\* The initial_phase_deg values tried.
PairPhases == {0, 90}

\* The gains (Kp, Ki) tried.
PairGains == {<<0, 1>>, <<1, 1>>}

PairInputs == UNION {[1..len -> PairSymbols] : len \in 0..MaxPairSyms}

notPair == <<codecVars, qamVars, costasVars, rrcVars, expVars, mainVars,
             txVars, slicerVars, csvVars, readVars>>

\* The omega that call r reads in a pass: the omega of a shared state.
RunOmega_shared(r) == runs[1].omega

\* The omega that call r reads in a pass: its local variable.
RunOmega(r) == runs[r].omega

\* Lines 96-104: the output arrays are new, phase and omega are set.
PairCall(r) ==
    /\ runs[r].pc \in {"idle", "done"}
    /\ \E syms \in PairInputs, deg \in PairPhases, gains \in PairGains :
          runs' = [runs EXCEPT ![r] =
                      [pc |-> "loop",
                       sym_I |-> [j \in 1..Len(syms) |-> syms[j][1]],
                       sym_Q |-> [j \in 1..Len(syms) |-> syms[j][2]],
                       initial_phase_deg |-> deg,
                       Kp |-> gains[1], Ki |-> gains[2],
                       phase |-> deg2rad(deg), omega |-> 0,
                       demod_I |-> <<>>, demod_Q |-> <<>>,
                       phase_trace |-> <<>>, omega_trace |-> <<>>,
                       error_trace |-> <<>>]]
    /\ UNCHANGED notPair

\* One pass of the loop body of call r; i is the number of passes done.
PairStep(r) ==
    LET st == runs[r]
        i == Len(st.demod_I)
    IN  /\ st.pc = "loop"
        /\ i < Len(st.sym_I)
        /\ LET rI == rot_I(st.sym_I[i + 1], st.sym_Q[i + 1], st.phase)
               rQ == rot_Q(st.sym_I[i + 1], st.sym_Q[i + 1], st.phase)
               err == phase_err(rI, rQ)
               om == RunOmega(r) + st.Ki * err
               ph == wrap(st.phase + om + st.Kp * err)
           IN  runs' = [runs EXCEPT ![r] =
                           [st EXCEPT !.demod_I = Append(@, rI),
                                      !.demod_Q = Append(@, rQ),
                                      !.error_trace = Append(@, err),
                                      !.omega = om,
                                      !.phase = ph,
                                      !.phase_trace = Append(@, rad2deg(ph)),
                                      !.omega_trace = Append(@, om)]]
        /\ UNCHANGED notPair

PairReturn(r) ==
    /\ runs[r].pc = "loop"
    /\ Len(runs[r].demod_I) = Len(runs[r].sym_I)
    /\ runs' = [runs EXCEPT ![r].pc = "done"]
    /\ UNCHANGED notPair

NextCostasPair ==
    \/ \E r \in RunIds : PairCall(r)
    \/ \E r \in RunIds : PairStep(r)
    \/ \E r \in RunIds : PairReturn(r)

SpecCostasPair == Init /\ [][NextCostasPair]_vars

\* ------------------------------------------------- readers of the CSV log
\* load_rx_constellation (plot_rx_constellation.py) and the module body of
\* analyze_rx.py read rx_constellation.csv: a header line, then one line
\* sym_idx,demod_I,demod_Q,locked per symbol.
MaxCsvLines == 2

\* The data lines tried, as characters: two well-formed lines (locked and
\* not), a line of two fields, a line with a field that is no integer, and
\* an empty line.
CsvLines == {<<"0", ",", "5", ",", "-", "3", ",", "1">>,
             <<"1", ",", "-", "7", ",", "2", ",", "0">>,
             <<"2", ",", "4">>,
             <<"3", ",", "x", ",", "6", ",", "1">>,
             <<>>}

CsvFiles == UNION {[1..len -> CsvLines] : len \in 0..MaxCsvLines}

Loaders == {"load_rx_constellation", "analyze_rx"}

\* line.split(","): the fields between the commas, at least one.
RECURSIVE Split(_)
Split(l) ==
    IF Len(l) = 0 THEN << <<>> >>
    ELSE LET rest == Split(Tail(l))
         IN  IF Head(l) = "," THEN << <<>> >> \o rest
             ELSE << <<Head(l)>> \o rest[1] >> \o Tail(rest)

DecDigits == {Digits[d] : d \in 1..10}

DecValue(ch) == (CHOOSE d \in 1..10 : Digits[d] = ch) - 1

\* The text is one that int() accepts: an optional sign, then digits.
IsIntText(s) ==
    LET ds == IF Len(s) > 0 /\ s[1] \in {"-", "+"} THEN Tail(s) ELSE s
    IN  /\ Len(ds) > 0
        /\ \A k \in 1..Len(ds) : ds[k] \in DecDigits

RECURSIVE DecNumber(_)
DecNumber(ds) ==
    IF Len(ds) = 0 THEN 0
    ELSE 10 * DecNumber(SubSeq(ds, 1, Len(ds) - 1)) + DecValue(ds[Len(ds)])

\* int(s) for a text that int() accepts
IntOf(s) ==
    IF s[1] = "-" THEN -DecNumber(Tail(s))
    ELSE IF s[1] = "+" THEN DecNumber(Tail(s))
    ELSE DecNumber(s)

\* The exception that int(row[...]) of the four columns raises on the
\* fields of a row, in the order of evaluation: TypeError on a missing
\* field (None), ValueError on a text that is no integer; "none" otherwise.
RECURSIVE RowError(_, _)
RowError(parts, k) ==
    IF k > 4 THEN "none"
    ELSE IF k > Len(parts) THEN "TypeError"
    ELSE IF ~IsIntText(parts[k]) THEN "ValueError"
    ELSE RowError(parts, k + 1)

notCsv == <<codecVars, qamVars, costasVars, rrcVars, expVars, mainVars,
            txVars, slicerVars, pairVars, readVars>>

\* The file is opened and its first line read.
CallLoader ==
    /\ v_pc \in {"idle", "returned", "raised"}
    /\ \E ld \in Loaders, hd \in BOOLEAN, file \in CsvFiles :
          /\ v_loader' = ld
          /\ v_header' = hd
          /\ v_lines' = file
    /\ v_k' = 0
    /\ I_all' = <<>>
    /\ Q_all' = <<>>
    /\ I_locked' = <<>>
    /\ Q_locked' = <<>>
    /\ v_data' = <<>>
    /\ v_exc' = "none"
    /\ v_pc' = "loop"
    /\ UNCHANGED notCsv

\* load_rx_constellation, one pass of "for line in f": a line of fewer than
\* four fields is passed over, and so is one on which an int() raises
\* ValueError; an unexpected header is only reported.
PlotLine ==
    /\ v_pc = "loop"
    /\ v_loader = "load_rx_constellation"
    /\ v_k < Len(v_lines)
    /\ LET parts == Split(v_lines[v_k + 1])
       IN  IF Len(parts) >= 4 /\ \A k \in 1..4 : IsIntText(parts[k])
           THEN /\ I_all' = Append(I_all, IntOf(parts[2]))
                /\ Q_all' = Append(Q_all, IntOf(parts[3]))
                /\ IF IntOf(parts[4]) # 0
                   THEN /\ I_locked' = Append(I_locked, IntOf(parts[2]))
                        /\ Q_locked' = Append(Q_locked, IntOf(parts[3]))
                   ELSE UNCHANGED <<I_locked, Q_locked>>
           ELSE UNCHANGED <<I_all, Q_all, I_locked, Q_locked>>
    /\ v_k' = v_k + 1
    /\ UNCHANGED <<v_pc, v_loader, v_header, v_lines, v_data, v_exc, notCsv>>

\* analyze_rx, one pass of "for row in reader": csv.DictReader passes over
\* an empty line and gives None for a missing field; the int() calls are
\* in no try block, and row["sym_idx"] needs the expected header.
AnalyzeRow ==
    /\ v_pc = "loop"
    /\ v_loader = "analyze_rx"
    /\ v_k < Len(v_lines)
    /\ LET line == v_lines[v_k + 1]
           parts == Split(line)
       IN  IF line = <<>>
           THEN UNCHANGED <<v_pc, v_data, v_exc>>
           ELSE IF ~v_header
           THEN /\ v_pc' = "raised"
                /\ v_exc' = "KeyError"
                /\ UNCHANGED v_data
           ELSE IF RowError(parts, 1) # "none"
           THEN /\ v_pc' = "raised"
                /\ v_exc' = RowError(parts, 1)
                /\ UNCHANGED v_data
           ELSE /\ v_data' = Append(v_data,
                                    [idx |-> IntOf(parts[1]),
                                     I |-> IntOf(parts[2]),
                                     Q |-> IntOf(parts[3]),
                                     lock |-> IntOf(parts[4])])
                /\ UNCHANGED <<v_pc, v_exc>>
    /\ v_k' = v_k + 1
    /\ UNCHANGED <<v_loader, v_header, v_lines, I_all, Q_all, I_locked,
                   Q_locked, notCsv>>

\* The end of the file
LoaderReturn ==
    /\ v_pc = "loop"
    /\ v_k = Len(v_lines)
    /\ v_pc' = "returned"
    /\ UNCHANGED <<v_loader, v_header, v_lines, v_k, I_all, Q_all, I_locked,
                   Q_locked, v_data, v_exc, notCsv>>

NextCsv ==
    \/ CallLoader
    \/ PlotLine
    \/ AnalyzeRow
    \/ LoaderReturn

SpecCsv == Init /\ [][NextCsv]_vars

\* --------------------------------------------- coefficient file read-back
\* export_mem writes a Q1.11 coefficient to rrc_coeffs.mem and the module
\* body of verify_rc.py reads it back.
Q1_11 == QFormat(1, 11)

\* int(line, base) of a line of digits. Python integers have no width; the
\* result is kept as its 16 low bits and whether it is at most 2^15 - 1,
\* which is what the conversion to int16 goes by.
RECURSIVE ReadInt(_, _)
ReadInt(ds, base) ==
    IF Len(ds) = 0 THEN [low |-> 0, fits |-> TRUE]
    ELSE LET p == ReadInt(SubSeq(ds, 1, Len(ds) - 1), base)
             d == (CHOOSE k \in 1..Len(Digits) : Digits[k] = ds[Len(ds)]) - 1
         IN  [low |-> (base * p.low + d) % 2 ^ 16,
              fits |-> p.fits /\ base * p.low + d < 2 ^ 15]

notRead == <<codecVars, qamVars, costasVars, rrcVars, expVars, mainVars,
             txVars, slicerVars, pairVars, csvVars>>

\* export_mem(coeffs, "rrc_coeffs.mem", Q1_11): the data line of a code
ExportCoeff ==
    /\ b_pc = "idle"
    /\ \E v \in CodesOf(Q1_11) :
          /\ b_v' = v
          /\ b_file' = DataLine("mem", 0, v, Q1_11, <<>>).txt
    /\ b_pc' = "written"
    /\ UNCHANGED <<b_int, coeffs_q, notRead>>

\* coeffs_q.append(int(line, 16) if len(line) == 3 else int(line))
ReadCoeff ==
    /\ b_pc = "written"
    /\ b_int' = ReadInt(b_file, IF Len(b_file) = 3 THEN 16 ELSE 10)
    /\ b_pc' = "read"
    /\ UNCHANGED <<b_v, b_file, coeffs_q, notRead>>

\* np.array(coeffs_q, dtype=np.int16): an integer beyond int16 raises
\* OverflowError (NumPy 2) or is cut to its 16 low bits (NumPy 1).
CoeffArray ==
    /\ b_pc = "read"
    /\ \/ /\ b_int.fits
          /\ coeffs_q' = b_int.low
          /\ b_pc' = "array"
       \/ /\ ~b_int.fits
          /\ coeffs_q' = AsSigned(b_int.low, 16)
          /\ b_pc' = "array"
       \/ /\ ~b_int.fits
          /\ b_pc' = "raised"
          /\ UNCHANGED coeffs_q
    /\ UNCHANGED <<b_v, b_file, b_int, notRead>>

\* if coeffs_q[i] > 2047: coeffs_q[i] -= 4096
SignCorrect ==
    /\ b_pc = "array"
    /\ coeffs_q' = IF coeffs_q > 2047 THEN coeffs_q - 4096 ELSE coeffs_q
    /\ b_pc' = "done"
    /\ UNCHANGED <<b_v, b_file, b_int, notRead>>

NextReadback ==
    \/ ExportCoeff
    \/ ReadCoeff
    \/ CoeffArray
    \/ SignCorrect

SpecReadback == Init /\ [][NextReadback]_vars

\* ================================================================ claims
\* Order and difference of finite values: by grid point, then by
\* displacement.
Le(a, b) == a.g < b.g \/ (a.g = b.g /\ a.e <= b.e)

Lt(a, b) == a.g < b.g \/ (a.g = b.g /\ a.e < b.e)

Sub(a, b) == Fin(a.g - b.g, a.e - b.e)

Abs(a) == IF a.g < 0 \/ (a.g = 0 /\ a.e < 0) THEN Fin(-a.g, -a.e) ELSE a

InRange(v, f) == v.k = "fin" /\ Le(min_val(f), v) /\ Le(v, max_val(f))

GtMax(v, f) == v.k \in {"pinf", "phuge"} \/ (v.k = "fin" /\ Lt(max_val(f), v))

HalfLsb(f) == Fin(GridDen \div (2 * scale(f)), 0)

Zero == Fin(0, 0)

\* C1 as stated: after float_to_fixed and fixed_to_float, every element that
\* was inside [min_val, max_val] is back within half an LSB of its input, in
\* each of the three rounding modes.
C1_RoundTripHalfLsbAllModes ==
    op = "fixed_to_float" =>
        \A i \in 1..Len(x) :
            InRange(x[i], fmt) => Le(Abs(Sub(y[i], x[i])), HalfLsb(fmt))

\* C1 amended: within half an LSB in mode 'round'; within half an LSB plus
\* the 1e-12 (of an LSB) tolerance of the half-way test, exclusive, in mode
\* 'convergent'; and in mode 'floor' the result is not above the input and
\* less than one LSB below it.
C1_RoundTripBound ==
    op = "fixed_to_float" =>
        \A i \in 1..Len(x) :
            InRange(x[i], fmt) =>
                LET d == Abs(Sub(y[i], x[i]))
                IN  /\ rounding = "round" => Le(d, HalfLsb(fmt))
                    /\ rounding = "convergent" =>
                          \/ Le(d, HalfLsb(fmt))
                          \/ d.g = HalfLsb(fmt).g /\ d.e * scale(fmt) < TolFine
                    /\ rounding = "floor" =>
                          /\ Le(Zero, Sub(x[i], y[i]))
                          /\ Lt(Sub(x[i], y[i]), resolution(fmt))

\* An in-range input that 'round' maps exactly half an LSB away, and has
\* been converted back.
C1_Witness ==
    /\ op = "fixed_to_float"
    /\ rounding = "round"
    /\ \E i \in 1..Len(x) :
          InRange(x[i], fmt) /\ Abs(Sub(y[i], x[i])) = HalfLsb(fmt)

\* C2: float_to_fixed never raises for an accepted rounding mode, returns as
\* many elements as it was given, and every returned integer lies in
\* [-2^(total_bits-1), 2^(total_bits-1)-1], whatever the input.
C2_OutputInRange ==
    op = "float_to_fixed" /\ rounding \in Modes =>
        /\ status = "returned"
        /\ Len(clipped) = Len(x)
        /\ \A i \in 1..Len(clipped) : clipped[i] \in min_int(fmt)..max_int(fmt)

\* A call that returned with one element clipped at each end.
C2_Witness ==
    /\ op = "float_to_fixed"
    /\ status = "returned"
    /\ n_sat = 2
    /\ \E j, k \in 1..Len(x) :
          /\ q[j].k = "int" /\ q[j].v > max_int(fmt)
          /\ clipped[j] = max_int(fmt)
          /\ q[k].k = "int" /\ q[k].v < min_int(fmt)
          /\ clipped[k] = min_int(fmt)

\* C3: when exactly one element of the input is greater than max_val and the
\* others are in range, that element is returned as the maximum code and
\* the saturation count is exactly 1.
C3_OneOverMaxReportedOnce ==
    op = "float_to_fixed" /\ status = "returned" =>
        \A i \in 1..Len(x) :
            (/\ GtMax(x[i], fmt)
             /\ \A j \in 1..Len(x) : j # i => InRange(x[j], fmt))
            => clipped[i] = max_int(fmt) /\ n_sat = 1

\* C4: for v in [-2^(b-1), 2^(b-1)-1], to_twos_complement(v, b) lies in
\* [0, 2^b) and reads back as v when taken as a signed b-bit value.
C4_TwosComplementRoundTrip ==
    (/\ op = "to_twos_complement"
     /\ val \in (-(2 ^ (bits - 1)))..(2 ^ (bits - 1) - 1))
    => tc \in 0..(2 ^ bits - 1) /\ AsSigned(tc, bits) = val

\* The most negative value of a width has been encoded.
C4_Witness ==
    /\ op = "to_twos_complement"
    /\ bits > 1
    /\ val = -(2 ^ (bits - 1))
    /\ tc = 2 ^ (bits - 1)

Levels == {-3, -1, 1, 3}

\* C8: the 16 nibble values map through QAM16_TABLE, and through qam16_map,
\* to 16 pairwise distinct (I, Q) pairs whose coordinates are levels.
C8_QamBijection ==
    /\ Cardinality({QAM16_TABLE(s) : s \in 0..15}) = 16
    /\ \A s \in 0..15 : QAM16_TABLE(s)[1] \in Levels /\ QAM16_TABLE(s)[2] \in Levels
    /\ m_pc = "returned" /\ m_op = "qam16_map" =>
          /\ Len(m_I) = Len(m_syms) /\ Len(m_Q) = Len(m_syms)
          /\ \A i \in 1..Len(m_syms) : m_I[i] \in Levels /\ m_Q[i] \in Levels
          /\ \A i, j \in 1..Len(m_syms) :
                m_syms[i] # m_syms[j] => <<m_I[i], m_Q[i]>> # <<m_I[j], m_Q[j]>>
    /\ m_pc = "returned" /\ m_op = "bits_to_symbols" =>
          \A i, j \in 1..Len(m_I) :
              Nibble(m_bits, i - 1) # Nibble(m_bits, j - 1)
              => <<m_I[i], m_Q[i]>> # <<m_I[j], m_Q[j]>>

\* qam16_map has mapped two nibbles that differ only in the Gray codes 11
\* and 10 of the I axis.
C8_Witness ==
    /\ m_pc = "returned"
    /\ m_op = "qam16_map"
    /\ m_syms = <<12, 8>>
    /\ m_I = <<1, 3>>

\* The per-axis Gray table as the claim writes it: 00->-3, 01->-1, 11->+1,
\* 10->+3, on the two bits taken MSB first.
ClaimGray(b1, b0) ==
    CASE b1 = 0 /\ b0 = 0 -> -3
      [] b1 = 0 /\ b0 = 1 -> -1
      [] b1 = 1 /\ b0 = 1 -> 1
      [] b1 = 1 /\ b0 = 0 -> 3

\* C9: for a bit sequence whose length is a multiple of 4, bits_to_symbols
\* returns len/4 symbols; symbol k takes its I level from bits 4k, 4k+1 and
\* its Q level from bits 4k+2, 4k+3 through the Gray table, and is what
\* qam16_map gives for the nibble value.
C9_NibbleMapping ==
    m_op = "bits_to_symbols" /\ m_pc = "returned" =>
        /\ Len(m_I) = Len(m_bits) \div 4
        /\ Len(m_Q) = Len(m_bits) \div 4
        /\ \A k \in 0..(Len(m_bits) \div 4 - 1) :
              /\ m_I[k + 1] = ClaimGray(m_bits[4 * k + 1], m_bits[4 * k + 2])
              /\ m_Q[k + 1] = ClaimGray(m_bits[4 * k + 3], m_bits[4 * k + 4])
              /\ m_I[k + 1] = qam16_map(<<Nibble(m_bits, k)>>).I[1]
              /\ m_Q[k + 1] = qam16_map(<<Nibble(m_bits, k)>>).Q[1]

\* Two symbols have been mapped, the second from the bits 1,0,1,1.
C9_Witness ==
    /\ m_op = "bits_to_symbols"
    /\ m_pc = "returned"
    /\ Len(m_bits) = 8
    /\ SubSeq(m_bits, 5, 8) = <<1, 0, 1, 1>>
    /\ m_I[2] = 3
    /\ m_Q[2] = 1

\* C10: for a bit sequence whose length is not a multiple of 4,
\* bits_to_symbols raises, before any symbol is mapped, and never returns.
C10_BadLengthRaises ==
    m_op = "bits_to_symbols" /\ Len(m_bits) % 4 # 0 =>
        /\ m_pc \in {"assert", "raised"}
        /\ m_k = 0
        /\ m_I = <<>>
        /\ m_Q = <<>>

\* A sequence of 6 bits, long enough for one symbol, has been refused.
C10_Witness ==
    /\ m_op = "bits_to_symbols"
    /\ m_pc = "raised"
    /\ Len(m_bits) = 6

\* C5 as stated: at loop entry and after every update the phase used for the
\* next de-rotation satisfies -pi < theta <= pi.
C5_PhaseInHalfOpenInterval ==
    c_pc = "loop" => -2 < phase /\ phase <= 2

\* C5 amended: after every per-symbol update -pi <= theta <= pi.
C5_PhaseWrappedAfterUpdate ==
    c_pc \in {"loop", "done"} /\ c_i > 0 => -2 <= phase /\ phase <= 2

\* An update has moved the phase across pi and wrapped it.
C5_Witness ==
    /\ c_pc = "loop"
    /\ c_i > 1
    /\ error_trace # 0
    /\ Kp > 0
    /\ phase = -2

\* C7 as stated: the phase error recorded for a de-rotated sample is the
\* phase error of the sample rotated by 90, 180 and 270 degrees.
C7_DiscriminatorQuadrantInvariant ==
    c_pc \in {"loop", "done"} /\ c_i > 0 =>
        /\ error_trace = phase_err(-demod_Q, demod_I)
        /\ error_trace = phase_err(-demod_I, -demod_Q)
        /\ error_trace = phase_err(demod_Q, -demod_I)

OnBoundary(v) == v \in {-slicer_th, 0, slicer_th}

\* C7 amended: the same, for every de-rotated sample neither coordinate of
\* which lies on a decision boundary of the slicer (0 or +-2/sqrt(10)).
C7_DiscriminatorInvariantOffBoundary ==
    (/\ c_pc \in {"loop", "done"}
     /\ c_i > 0
     /\ ~OnBoundary(demod_I)
     /\ ~OnBoundary(demod_Q))
    =>  /\ error_trace = phase_err(-demod_Q, demod_I)
        /\ error_trace = phase_err(-demod_I, -demod_Q)
        /\ error_trace = phase_err(demod_Q, -demod_I)

\* A sample off the boundaries with a non-zero phase error has been
\* processed at a non-zero loop phase.
C7_Witness ==
    /\ c_pc = "loop"
    /\ c_i > 0
    /\ ~OnBoundary(demod_I)
    /\ ~OnBoundary(demod_Q)
    /\ error_trace # 0
    /\ demod_I # in_I

\* ------------------------------------------------------------------- C11
\* C11: design_rrc called with an even num_taps never returns a filter and
\* fails before any tap is computed, in golden_model and in debug_rx_chain.
C11_EvenTapsFatal ==
    (r_N > 0 /\ r_N % 2 = 0) =>
        /\ r_pc # "returned"
        /\ r_i = 0

\* ------------------------------------------------------------------- C12
\* C12: design_rrc (golden_model) called with alpha = 0 and an odd num_taps
\* never returns a filter and raises before any tap is computed.
C12_ZeroAlphaRaises ==
    (r_mod = "golden_model" /\ r_alpha = 0 /\ r_N % 2 = 1) =>
        /\ r_pc # "returned"
        /\ r_i = 0

\* ------------------------------------------------------------------- C13
\* C13: for odd num_taps, sps >= 1 and 0 < alpha <= 1, the filter returned
\* by design_rrc has exactly num_taps taps, tap n equals tap N-1-n, and both
\* are computed by the same formula case.
C13_FilterSymmetric ==
    (r_pc = "returned" /\ r_N % 2 = 1 /\ r_alpha > 0) =>
        /\ Len(r_h) = r_N
        /\ \A j \in 1..r_N :
              /\ r_h[j].case \in {"zero", "singular", "general"}
              /\ r_h[j].case = r_h[r_N + 1 - j].case
              /\ r_h[j] = r_h[r_N + 1 - j]

C13_Witness ==
    /\ r_pc = "returned"
    /\ r_mod = "golden_model"
    /\ r_N = MaxTaps
    /\ r_alpha > 0
    /\ r_norm
    /\ \E j \in 1..r_N : r_h[j].case = "singular"
    /\ \E j \in 1..r_N : r_h[j].case = "general"
    /\ \E j \in 1..r_N : r_h[j].case = "zero"

\* ------------------------------------------------------------------- C14
\* C14: two exports by the same exporter with the same data, format, comment
\* and array name leave the same file contents, whatever the destination
\* held before either call.
SameExportArgs ==
    /\ e_prev.set
    /\ e_prev.kind = e_kind
    /\ e_prev.data = e_data
    /\ e_prev.fmt = e_fmt
    /\ e_prev.comment = e_comment
    /\ e_prev.name = e_name

C14_ExportDeterministic ==
    (e_pc = "returned" /\ SameExportArgs) => e_file = e_prev.file

C14_Witness ==
    /\ e_pc = "returned"
    /\ SameExportArgs
    /\ e_kind = "v"
    /\ Len(e_data) > 0
    /\ e_prior # <<>>
    /\ e_prior # e_prev.file
    /\ e_file = e_prev.file

\* ------------------------------------------------------------------- C15
\* ceil(a / b)
CeilDiv(a, b) == IF a % b = 0 THEN a \div b ELSE a \div b + 1

DigitsOf(base) == {Digits[d] : d \in 1..base}

DigitValue(ch) == (CHOOSE d \in 1..Len(Digits) : Digits[d] = ch) - 1

\* The unsigned number a sequence of digits reads as.
RECURSIVE ReadUnsigned(_, _)
ReadUnsigned(ds, base) ==
    IF Len(ds) = 0 THEN 0
    ELSE base * ReadUnsigned(SubSeq(ds, 1, Len(ds) - 1), base)
         + DigitValue(ds[Len(ds)])

DataInRange == \A i \in 1..Len(e_data) : e_data[i] \in CodesOf(e_fmt)

NumHeader == IF e_comment # "" THEN 2 ELSE 1

\* Data line i of a hex or mem file has exactly width digits of the base
\* and reads back, as a signed total_bits-bit value, as data[i].
RecordOk(i, width, base) ==
    LET l == e_file[NumHeader + i]
    IN  /\ l.t = "data"
        /\ Len(l.txt) = width
        /\ \A k \in 1..Len(l.txt) : l.txt[k] \in DigitsOf(base)
        /\ AsSigned(ReadUnsigned(l.txt, base), total_bits(e_fmt)) = e_data[i]

\* C15: for in-range data export_hex writes the comment header lines first,
\* then exactly len(data) data lines in input order, each of exactly
\* ceil(total_bits/4) hex digits that read back as data[i].
C15_HexRecords ==
    (e_pc = "returned" /\ e_kind = "hex" /\ DataInRange) =>
        /\ Len(e_file) = NumHeader + Len(e_data)
        /\ e_file[NumHeader].t = "format"
        /\ e_file[NumHeader].num = Len(e_data)
        /\ e_comment # "" => (e_file[1].t = "comment" /\ e_file[1].c = e_comment)
        /\ \A i \in 1..Len(e_data) :
              RecordOk(i, CeilDiv(total_bits(e_fmt), 4), 16)

C15_Witness ==
    /\ e_pc = "returned"
    /\ e_kind = "hex"
    /\ DataInRange
    /\ e_comment # ""
    /\ total_bits(e_fmt) = 5
    /\ Len(e_data) = 2
    /\ e_data[1] < 0
    /\ e_data[2] = 0
    /\ e_prior # <<>>

\* ------------------------------------------------------------------- C16
\* C16: for in-range data every data line written by export_mem has exactly
\* total_bits characters, each 0 or 1, one line per element in input order.
C16_MemRecords ==
    (e_pc = "returned" /\ e_kind = "mem" /\ DataInRange) =>
        /\ Len(e_file) = NumHeader + Len(e_data)
        /\ \A i \in 1..NumHeader : e_file[i].t # "data"
        /\ \A i \in 1..Len(e_data) : RecordOk(i, total_bits(e_fmt), 2)

C16_Witness ==
    /\ e_pc = "returned"
    /\ e_kind = "mem"
    /\ DataInRange
    /\ total_bits(e_fmt) >= 3
    /\ Len(e_data) = 2
    /\ e_data[1] = 0
    /\ e_data[2] < 0

\* ------------------------------------------------------------------- C17
IsEntry(l) == l.t = "entry"

IsDefault(l) == l.t = "default"

IsLocalparam(l) == l.t = "localparam"

\* C17: export_verilog_include declares the element count as n = len(data),
\* emits exactly n case entries, indices 0..n-1 in order, entry i carrying
\* the total_bits-wide literal of data[i] (read back for in-range data),
\* and right after them exactly one default case, of value zero.
C17_LookupTable ==
    (e_pc = "returned" /\ e_kind = "v") =>
        LET n == Len(e_data)
            entries == SelectSeq(e_file, IsEntry)
            defaults == SelectSeq(e_file, IsDefault)
            params == SelectSeq(e_file, IsLocalparam)
        IN  /\ Len(params) = 1
            /\ params[1].num = n
            /\ params[1].id = e_name
            /\ Len(entries) = n
            /\ \A i \in 1..n :
                  /\ entries[i].idx = i - 1
                  /\ total_bits(entries[i].f) = total_bits(e_fmt)
                  /\ e_data[i] \in CodesOf(e_fmt) =>
                        AsSigned(ReadUnsigned(entries[i].txt, 16),
                                 total_bits(e_fmt)) = e_data[i]
            /\ Len(defaults) = 1
            /\ ReadUnsigned(defaults[1].txt, 16) = 0
            /\ \E k \in 0..Len(e_file) :
                  /\ \A i \in 1..n : e_file[k + i] = entries[i]
                  /\ e_file[k + n + 1] = defaults[1]

C17_Witness ==
    /\ e_pc = "returned"
    /\ e_kind = "v"
    /\ Len(e_data) = 2
    /\ e_data[1] < 0
    /\ e_data[2] > 0
    /\ DataInRange
    /\ e_comment # ""
    /\ total_bits(e_fmt) = 5

\* ------------------------------------------------------------------- C18
\* C18: when a step of golden_model.main fails on its input (the even tap
\* count check of design_rrc, for example), the run has written no vector
\* file, complete or partial: every such failure precedes the first export.
C18_NoArtifactsOnFailure ==
    (g_pc = "aborted" /\ g_cause # "OSError") =>
        (g_files = {} /\ g_partial = {})

\* ------------------------------------------------------------------- C19
IsShaper == t_op \in {"upsample_and_filter", "tx_process"}

\* C19: for n >= 1 symbols, sps >= 1 and any filter, upsample_and_filter and
\* tx_process return I and Q streams of the length of the zero-inserted
\* input, n * sps.
C19_OutputLengthIsInputLength ==
    (IsShaper /\ t_pc = "returned" /\ Len(t_I) >= 1) =>
        /\ Len(t_outI) = Len(t_I) * t_sps
        /\ Len(t_outQ) = Len(t_Q) * t_sps

\* ------------------------------------------------------------------- C20
\* The samples of a stream at the indices start + k * step below its length.
TakenFrom(stream, out, start, step) ==
    /\ Len(out) = Cardinality({j \in 0..(Len(stream) - 1) :
                                  j >= start /\ (j - start) % step = 0})
    /\ \A k \in 1..Len(out) : out[k] = stream[start + (k - 1) * step + 1]

\* C20 as stated: gardner_ted_simple outputs the matched-filter samples at
\* indices floor(num_taps/2) + k * sps.
C20_SamplerStartsHalfTapsIn ==
    (t_op = "gardner_ted_simple" /\ t_pc = "returned") =>
        /\ TakenFrom(t_I, t_outI, NUM_TAPS \div 2, SPS)
        /\ TakenFrom(t_Q, t_outQ, NUM_TAPS \div 2, SPS)

\* C20, amended: gardner_ted_simple outputs the matched-filter samples at
\* indices floor(num_taps/2) * sps + k * sps: it skips floor(num_taps/2)
\* symbols, then takes one sample every sps.
C20_SamplerSkipsHalfTapsSymbols ==
    (t_op = "gardner_ted_simple" /\ t_pc = "returned") =>
        /\ TakenFrom(t_I, t_outI, (NUM_TAPS \div 2) * SPS, SPS)
        /\ TakenFrom(t_Q, t_outQ, (NUM_TAPS \div 2) * SPS, SPS)

C20_Witness ==
    /\ t_op = "gardner_ted_simple"
    /\ t_pc = "returned"
    /\ Len(t_I) > (NUM_TAPS \div 2) * SPS + SPS
    /\ Len(t_outI) = 2
    /\ t_outI[1] = (NUM_TAPS \div 2) * SPS
    /\ t_outQ[2] = -((NUM_TAPS \div 2) * SPS + SPS) - 1

\* ------------------------------------------------------------------- C22
\* C22: float_to_fixed raises for every rounding mode other than 'floor',
\* 'round' and 'convergent', before it returns anything, and raises in no
\* other case, whatever the values of x.
C22_RaisesIffUnknownMode ==
    op = "float_to_fixed" =>
        /\ status = "raised" <=> rounding \notin {"floor", "round", "convergent"}
        /\ status = "raised" => (clipped = <<>> /\ q = <<>>)
        /\ status # "raised" => (status = "returned" /\ Len(clipped) = Len(x))

C22_Witness ==
    /\ op = "float_to_fixed"
    /\ status = "raised"
    /\ rounding = "nearest"
    /\ Len(x) > 0
    /\ x[1].k = "pinf"

\* ------------------------------------------------------------------- C23
\* The 2-bit axis code of mapped symbol j on an axis, as the caller gave it.
AxisCode(j, axis) ==
    IF m_op = "qam16_map"
    THEN (IF axis = "I" THEN (m_syms[j] \div 4) % 4 ELSE m_syms[j] % 4)
    ELSE (IF axis = "I"
          THEN 2 * m_bits[4 * (j - 1) + 1] + m_bits[4 * (j - 1) + 2]
          ELSE 2 * m_bits[4 * (j - 1) + 3] + m_bits[4 * (j - 1) + 4])

AxisLevel(j, axis) == IF axis = "I" THEN m_I[j] ELSE m_Q[j]

\* The number of bit positions in which two 2-bit codes differ.
Hamming2(c, d) ==
    (IF c \div 2 # d \div 2 THEN 1 ELSE 0) + (IF c % 2 # d % 2 THEN 1 ELSE 0)

\* C23: whenever two mapped axis levels are neighbours (-3 and -1, -1 and
\* +1, +1 and +3), the 2-bit codes they were mapped from differ in exactly
\* one bit; for the table of bits_to_symbols and for that of qam16_map.
C23_GrayAdjacency ==
    \A j, k \in 1..Len(m_I) : \A a, b \in {"I", "Q"} :
        (AxisLevel(j, a) - AxisLevel(k, b) = 2) =>
            Hamming2(AxisCode(j, a), AxisCode(k, b)) = 1

C23_Witness ==
    /\ m_op = "bits_to_symbols"
    /\ m_pc = "returned"
    /\ Len(m_I) = 2
    /\ m_I[1] = -1 /\ m_I[2] = 1
    /\ m_Q[1] = 1 /\ m_Q[2] = 3
    /\ AxisCode(1, "I") = 1 /\ AxisCode(2, "I") = 3

\* ------------------------------------------------------------------- C27
HasQuantized == status = "returned" /\ op \in {"float_to_fixed", "fixed_to_float"}

\* The code the other of the two modes 'round' and 'convergent' gives for
\* element i, before the clip.
OtherMode == IF rounding = "round" THEN "convergent" ELSE "round"

OtherCode(i) == Rounded(Scaled(x[i], fmt), OtherMode)

\* x[i] * scale as a real number, and its distance to an integer code c
ScaledX(i) == Fin(x[i].g * 2 ^ fmt.frac_bits, x[i].e * 2 ^ fmt.frac_bits)

Dist(i, c) == Abs(Sub(ScaledX(i), Fin(c * GridDen, 0)))

Half == Fin(GridDen \div 2, 0)

\* c is a nearest code of element i, and the even one when two are nearest.
NearestEven(i, c) ==
    /\ Le(Dist(i, c), Half)
    /\ Dist(i, c) = Half => c % 2 = 0

\* The scaled value is within 1e-12 of a half-way point without being on it.
NearTie(i) ==
    /\ Lt(Abs(Sub(Dist(i, q[i].v), Half)), Fin(0, TolFine))
    /\ Dist(i, q[i].v) # Half

\* C27 as stated: 'round' and 'convergent' return the same code for every
\* input and format, the even code for a value exactly half-way and the
\* nearest code for every other value (that is not clipped).
C27_RoundEqualsConvergent ==
    (HasQuantized /\ rounding \in {"round", "convergent"}) =>
        \A i \in 1..Len(x) :
            x[i].k = "fin" =>
                /\ clipped[i] = np_clip([k |-> "int", v |-> OtherCode(i)],
                                        min_int(fmt), max_int(fmt))
                /\ clipped[i] = q[i].v => NearestEven(i, clipped[i])

\* C27, amended: the two modes return the same code, the even code for a
\* value exactly half-way and the nearest code otherwise, for every input
\* whose scaled value is not within 1e-12 of a half-way point off it.
C27_RoundEqualsConvergentOffTolerance ==
    (HasQuantized /\ rounding \in {"round", "convergent"}) =>
        \A i \in 1..Len(x) :
            (x[i].k = "fin" /\ ~NearTie(i)) =>
                /\ clipped[i] = np_clip([k |-> "int", v |-> OtherCode(i)],
                                        min_int(fmt), max_int(fmt))
                /\ clipped[i] = q[i].v => NearestEven(i, clipped[i])

\* An exact tie whose lower neighbour is odd, rounded in mode 'round'.
C27_Witness ==
    /\ HasQuantized
    /\ rounding = "round"
    /\ Len(x) = 1
    /\ x[1].k = "fin"
    /\ Dist(1, q[1].v) = Half
    /\ Le(ScaledX(1), Fin(q[1].v * GridDen, 0))
    /\ q[1].v = OtherCode(1)
    /\ clipped[1] = q[1].v

\* ------------------------------------------------------------------- C28
\* x[i] is fixed_to_float(c) for the code c: x[i] * scale = c exactly.
IsCode(i, c) == x[i].k = "fin" /\ ScaledX(i) = Fin(c * GridDen, 0)

\* C28: for every format, every code c in [min_int, max_int] and each of the
\* three rounding modes, float_to_fixed(fixed_to_float(c)) = c, with no
\* saturated value reported.
C28_CodesAreFixedPoints ==
    (HasQuantized /\ rounding \in {"floor", "round", "convergent"}) =>
        /\ \A i \in 1..Len(x) :
              \A c \in (-(2 ^ (total_bits(fmt) - 1)))..(2 ^ (total_bits(fmt) - 1) - 1) :
                  IsCode(i, c) => clipped[i] = c
        /\ (\A i \in 1..Len(x) :
              \E c \in (-(2 ^ (total_bits(fmt) - 1)))..(2 ^ (total_bits(fmt) - 1) - 1) :
                  IsCode(i, c)) => n_sat = 0

C28_Witness ==
    /\ HasQuantized
    /\ rounding = "floor"
    /\ Len(x) = 2
    /\ fmt.frac_bits = MaxFracBits
    /\ IsCode(1, -(2 ^ (total_bits(fmt) - 1)))
    /\ IsCode(2, 2 ^ (total_bits(fmt) - 1) - 1)
    /\ clipped = <<-(2 ^ (total_bits(fmt) - 1)), 2 ^ (total_bits(fmt) - 1) - 1>>
    /\ n_sat = 0

\* ------------------------------------------------------------------- C26
\* The four levels, in units of 1/(2 sqrt(10))
QamLevels == {-6, -2, 2, 6}

AbsDiff(a, b) == IF a < b THEN b - a ELSE a - b

\* l is a level, and no level is strictly closer to v.
NearestLevel(v, l) ==
    /\ l \in QamLevels
    /\ \A m \in QamLevels : AbsDiff(v, l) <= AbsDiff(v, m)

\* The level of the decision region of v, regions meeting at -2/sqrt(10),
\* 0 and +2/sqrt(10); a boundary is in neither region.
RegionLevel(v, l) ==
    /\ v < -4 => l = -6
    /\ (-4 < v /\ v < 0) => l = -2
    /\ (0 < v /\ v < 4) => l = 2
    /\ 4 < v => l = 6

\* C26: slice_qam returns one of the four levels, a nearest one to its
\* input, with decision boundaries at -2/sqrt(10), 0 and +2/sqrt(10), on
\* each axis whatever the other axis holds.
C26_SlicerNearest ==
    s_pc = "returned" =>
        /\ NearestLevel(s_xI, s_hatI)
        /\ NearestLevel(s_xQ, s_hatQ)
        /\ RegionLevel(s_xI, s_hatI)
        /\ RegionLevel(s_xQ, s_hatQ)

\* A boundary on one axis, an inner point that is no level on the other.
C26_Witness ==
    /\ s_pc = "returned"
    /\ s_xI = 4
    /\ s_hatI = 6
    /\ s_xQ = -3
    /\ s_hatQ = -2

\* ------------------------------------------------------------------- C25
\* The symbol (I, Q) turned back by p quarter turns.
Derotated(I_in, Q_in, p) ==
    CASE p % 4 = 0 -> <<I_in, Q_in>>
      [] p % 4 = 1 -> <<Q_in, -I_in>>
      [] p % 4 = 2 -> <<-I_in, -Q_in>>
      [] p % 4 = 3 -> <<-Q_in, I_in>>

\* The decision-directed error of a de-rotated symbol d.
CrossError(d) == d[1] * slice_qam(d[2]) - d[2] * slice_qam(d[1])

\* The angle of [-2, 2) quarter turns that p is equal to, modulo a turn.
Wrapped(p) == CHOOSE w \in (-2)..1 : (p - w) % 4 = 0

\* C25: each pass of the loop of costas_loop_float takes the error from the
\* symbol de-rotated by the phase held before the pass and emits that
\* de-rotated symbol, then omega' = omega + Ki*err and
\* phase' = wrap(phase + omega' + Kp*err); the first pass starts from the
\* initial phase with omega = 0, phase and omega change in a pass only, and
\* the run ends after exactly n passes.
C25_LoopFilterStep ==
    /\ [](c_pc = "done" => c_i = c_n)
    /\ []((c_pc = "loop" /\ c_i = 0) => omega = 0)
    /\ [][/\ (c_pc = "loop" /\ (phase' # phase \/ omega' # omega))
                => c_i' = c_i + 1
          /\ (c_i' = c_i + 1) =>
                LET d == Derotated(in_I', in_Q', phase)
                    err == CrossError(d)
                IN  /\ c_i < c_n
                    /\ demod_I' = d[1]
                    /\ demod_Q' = d[2]
                    /\ error_trace' = err
                    /\ omega' = omega + Ki * err
                    /\ omega_trace' = omega'
                    /\ phase' = Wrapped(phase + omega' + Kp * err)
                    /\ phase_trace' = 90 * phase']_vars

\* Two passes done with both gains on, from a quarter turn off, the last
\* pass with a non-zero error and a non-zero omega.
C25_Witness ==
    /\ c_pc = "done"
    /\ c_n = 2
    /\ c_i = 2
    /\ Kp > 0
    /\ Ki > 0
    /\ error_trace # 0
    /\ omega # 0
    /\ omega_trace = omega
    /\ phase % 2 # 0
    /\ demod_I = in_Q

\* ------------------------------------------------------------------- C29
\* C29: from phase 0 and omega 0, the state costas_loop_float starts in
\* when the initial phase is 0, a pass over an ideal 16-QAM constellation
\* point has phase error 0, leaves phase = 0 and omega = 0 and emits the
\* received symbol, for every Kp and Ki; so it is for every pass of a run
\* over ideal points.
C29_LockedStateStable ==
    [][(/\ c_pc = "loop"
        /\ phase = 0
        /\ omega = 0
        /\ c_i' = c_i + 1
        /\ in_I' \in QamLevels
        /\ in_Q' \in QamLevels)
          => /\ error_trace' = 0
             /\ phase' = 0
             /\ omega' = 0
             /\ phase_trace' = 0
             /\ omega_trace' = 0
             /\ demod_I' = in_I'
             /\ demod_Q' = in_Q']_vars

\* The second pass of a run that started at phase 0, both gains on, over
\* an ideal point whose I and Q levels differ.
C29_Witness ==
    /\ c_pc = "loop"
    /\ c_i = 2
    /\ Kp > 0
    /\ Ki > 0
    /\ phase = 0
    /\ omega = 0
    /\ in_I = 2
    /\ in_Q = -6
    /\ demod_I = 2
    /\ demod_Q = -6
    /\ error_trace = 0
    /\ phase_trace = 0

\* ------------------------------------------------------------------- C21
\* What a call of costas_loop_float holds after k passes when nothing else
\* runs: phase, omega, and the first k entries of its outputs and traces.
RECURSIVE SoloRun(_, _, _, _, _, _)
SoloRun(sI, sQ, deg, kp, ki, k) ==
    IF k = 0
    THEN [phase |-> deg \div 90, omega |-> 0, demod_I |-> <<>>,
          demod_Q |-> <<>>, phase_trace |-> <<>>, omega_trace |-> <<>>,
          error_trace |-> <<>>]
    ELSE LET prev == SoloRun(sI, sQ, deg, kp, ki, k - 1)
             d == Derotated(sI[k], sQ[k], prev.phase)
             err == CrossError(d)
             om == prev.omega + ki * err
             ph == Wrapped(prev.phase + om + kp * err)
         IN  [phase |-> ph, omega |-> om,
              demod_I |-> Append(prev.demod_I, d[1]),
              demod_Q |-> Append(prev.demod_Q, d[2]),
              phase_trace |-> Append(prev.phase_trace, 90 * ph),
              omega_trace |-> Append(prev.omega_trace, om),
              error_trace |-> Append(prev.error_trace, err)]

AsAlone(st) ==
    LET k == Len(st.demod_I)
        solo == SoloRun(st.sym_I, st.sym_Q, st.initial_phase_deg,
                        st.Kp, st.Ki, k)
    IN  /\ st.phase = solo.phase
        /\ st.omega = solo.omega
        /\ st.demod_I = solo.demod_I
        /\ st.demod_Q = solo.demod_Q
        /\ st.phase_trace = solo.phase_trace
        /\ st.omega_trace = solo.omega_trace
        /\ st.error_trace = solo.error_trace
        /\ st.pc = "done" => k = Len(st.sym_I)

\* C21: however the passes of two costas_loop_float calls are interleaved,
\* each call holds after each of its passes, and returns, the demodulated
\* symbols and the phase, omega and error traces it has when run alone; a
\* call started after another has finished starts from its own initial
\* phase and omega = 0.
C21_RunsShareNoState ==
    \A r \in RunIds : runs[r].pc \in {"loop", "done"} => AsAlone(runs[r])

\* Both calls are one pass into two, on different symbols, initial phases
\* and gains, each with its own non-zero omega.
C21_Witness ==
    /\ \A r \in RunIds :
          /\ runs[r].pc = "loop"
          /\ Len(runs[r].sym_I) = 2
          /\ Len(runs[r].demod_I) = 1
          /\ runs[r].Ki = 1
          /\ runs[r].omega # 0
    /\ runs[1].omega # runs[2].omega
    /\ runs[1].sym_I # runs[2].sym_I
    /\ runs[1].initial_phase_deg # runs[2].initial_phase_deg
    /\ runs[1].Kp # runs[2].Kp

\* ------------------------------------------------------------------- C24
\* A data line of at least four fields, the first four of them integers.
WellFormed(line) ==
    /\ Len(Split(line)) >= 4
    /\ \A k \in 1..4 : IsIntText(Split(line)[k])

\* Column c of the well-formed lines of the file, in order.
ColumnOfWellFormed(c) ==
    LET good == SelectSeq(v_lines, WellFormed)
    IN  [j \in 1..Len(good) |-> IntOf(Split(good[j])[c])]

LoadedI ==
    IF v_loader = "analyze_rx" THEN [j \in 1..Len(v_data) |-> v_data[j].I]
    ELSE I_all

LoadedQ ==
    IF v_loader = "analyze_rx" THEN [j \in 1..Len(v_data) |-> v_data[j].Q]
    ELSE Q_all

\* C24: either loader, reading a file with the expected header, ends
\* without an exception whatever malformed data lines the file holds, with
\* exactly the well-formed lines loaded, in order, and I and Q lists of the
\* same length.
C24_BestEffortParse ==
    (v_pc \in {"returned", "raised"} /\ v_header) =>
        /\ v_pc = "returned"
        /\ LoadedI = ColumnOfWellFormed(2)
        /\ LoadedQ = ColumnOfWellFormed(3)
        /\ Len(LoadedI) = Len(LoadedQ)

\* ------------------------------------------------------------------- C30
\* C30: the line export_mem writes for a Q1.11 code v, read by verify_rc
\* (int(line, 16) for a line of 3 characters, int(line) otherwise) and
\* sign-corrected, gives back v, for every v in [-2048, 2047].
C30_ReadBackGivesCode ==
    b_pc \in {"done", "raised"} => (b_pc = "done" /\ coeffs_q = b_v)

=============================================================================
